---- MODULE Spec2Model ----
(***************************************************************************)
(* Model of src/modules/open_digraph.py: Node, OpenDigraph.                *)
(*                                                                         *)
(* Python objects are modelled as a heap.  A Node object is a record held  *)
(* in objs under a reference; a list object (inputs, outputs) is a         *)
(* sequence held in lists under a reference; an OpenDigraph object is a    *)
(* record held in graphs under its name.  A Python dict is a sequence of   *)
(* <<key, value>> pairs in insertion order.  Every method is an operator   *)
(* from a store (objs, lists, graphs, err, ret) to a store; a raised       *)
(* exception is recorded in err and makes every later call a no-op, so the *)
(* store returned by a method is the state the caller observes, including  *)
(* the partial effects of a method that raised half way.                   *)
(***************************************************************************)
EXTENDS Integers, Sequences, FiniteSets, TLC

VARIABLES objs, lists, graphs, last, calls

vars == <<objs, lists, graphs, last, calls>>

(***************************************************************************)
(* Bounds of the model.                                                    *)
(***************************************************************************)
MaxId == 2        \* largest id add_node may allocate / a caller may name
MaxNodes == 3     \* largest number of keys of a node map
MaxMult == 2      \* largest multiplicity add_edge may produce
MaxArgs == 2      \* most ids a call of add_node may list as parents and children together
MaxCalls == 5     \* number of calls made on the graphs after their construction

Ids == 0..MaxId
Labels == {"a"}
\* None, and Some(x) for a returned value
None == <<>>
Some(x) == <<x>>

(***************************************************************************)
(* Python dict: a sequence of <<key, value>> pairs, insertion ordered.     *)
(***************************************************************************)
EmptyDict == <<>>
KeySeq(d) == [i \in 1..Len(d) |-> d[i][1]]
KeySet(d) == {d[i][1] : i \in 1..Len(d)}
Has(d, k) == \E i \in 1..Len(d) : d[i][1] = k
Idx(d, k) == CHOOSE i \in 1..Len(d) : d[i][1] = k
Get(d, k) == d[Idx(d, k)][2]
Put(d, k, v) == IF Has(d, k) THEN [d EXCEPT ![Idx(d, k)] = <<k, v>>]
                ELSE Append(d, <<k, v>>)
Del(d, k) == LET keep(p) == p[1] # k IN SelectSeq(d, keep)
\* dict == dict ignores the insertion order
DictEq(d1, d2) == {d1[i] : i \in 1..Len(d1)} = {d2[i] : i \in 1..Len(d2)}
\* the multiplicity a dict records for a key, 0 when the key is absent
Mult(d, k) == IF Has(d, k) THEN Get(d, k) ELSE 0

InSeq(x, s) == \E i \in 1..Len(s) : s[i] = x
SeqSet(s) == {s[i] : i \in 1..Len(s)}
Without(s, x) == LET keep(y) == y # x IN SelectSeq(s, keep)
SeqsUpTo(S, n) == UNION {[1..k -> S] : k \in 0..n}

RECURSIVE SetMax(_)
SetMax(S) == LET x == CHOOSE y \in S : TRUE
             IN IF S = {x} THEN x
                ELSE LET m == SetMax(S \ {x}) IN IF x > m THEN x ELSE m

(***************************************************************************)
(* Node                                                                    *)
(***************************************************************************)
Node(identity, label, parents, children) ==
    [id |-> identity, label |-> label, parents |-> parents, children |-> children]

add_parent_id(n, parent_id) ==
    IF Has(n.parents, parent_id)
    THEN [n EXCEPT !.parents = Put(n.parents, parent_id, Get(n.parents, parent_id) + 1)]
    ELSE [n EXCEPT !.parents = Put(n.parents, parent_id, 1)]

add_child_id(n, child_id) ==
    IF Has(n.children, child_id)
    THEN [n EXCEPT !.children = Put(n.children, child_id, Get(n.children, child_id) + 1)]
    ELSE [n EXCEPT !.children = Put(n.children, child_id, 1)]

remove_parent_once(n, identity) ==
    IF Has(n.parents, identity)
    THEN IF Get(n.parents, identity) <= 1
         THEN [n EXCEPT !.parents = Del(n.parents, identity)]
         ELSE [n EXCEPT !.parents = Put(n.parents, identity, Get(n.parents, identity) - 1)]
    ELSE n

remove_child_once(n, identity) ==
    IF Has(n.children, identity)
    THEN IF Get(n.children, identity) <= 1
         THEN [n EXCEPT !.children = Del(n.children, identity)]
         ELSE [n EXCEPT !.children = Put(n.children, identity, Get(n.children, identity) - 1)]
    ELSE n

remove_parent_id(n, identity) ==
    IF Has(n.parents, identity) THEN [n EXCEPT !.parents = Del(n.parents, identity)] ELSE n

remove_child_id(n, identity) ==
    IF Has(n.children, identity) THEN [n EXCEPT !.children = Del(n.children, identity)] ELSE n

\* Node.__eq__
NodeEq(n1, n2) ==
    /\ n1.id = n2.id
    /\ n1.label = n2.label
    /\ DictEq(n1.parents, n2.parents)
    /\ DictEq(n1.children, n2.children)

(***************************************************************************)
(* The store and its heap                                                  *)
(***************************************************************************)
Store == [objs |-> objs, lists |-> lists, graphs |-> graphs, err |-> "none", ret |-> None]

Ok(S) == S.err = "none"
Raise(S, e) == [S EXCEPT !.err = e]

NewRef(heap) == CHOOSE r \in 1..(Cardinality(DOMAIN heap) + 1) : r \notin DOMAIN heap

\* allocate a fresh list object holding s and bind it to field f of graph g
BindNewList(S, g, f, s) ==
    LET r == NewRef(S.lists)
    IN [S EXCEPT !.lists = S.lists @@ (r :> s),
                 !.graphs[g] = IF f = "inputs" THEN [@ EXCEPT !.inputs = r]
                                               ELSE [@ EXCEPT !.outputs = r]]

\* objects no graph refers to any more are collected (reference counting)
Collect(S) ==
    LET liveN == UNION {{p[2] : p \in SeqSet(S.graphs[g].nodes)} : g \in DOMAIN S.graphs}
        liveL == UNION {{S.graphs[g].inputs, S.graphs[g].outputs} : g \in DOMAIN S.graphs}
    IN [S EXCEPT !.objs = [r \in liveN |-> S.objs[r]],
                 !.lists = [r \in liveL |-> S.lists[r]]]

(***************************************************************************)
(* OpenDigraph: constructor and getters                                    *)
(***************************************************************************)
\* {node.id: node for node in nodes}: a later node replaces an earlier one of the same id
RECURSIVE NodeDict(_, _, _)
NodeDict(heap, refs, i) ==
    IF i = 0 THEN EmptyDict
    ELSE Put(NodeDict(heap, refs, i - 1), heap[refs[i]].id, refs[i])

\* OpenDigraph(inputs, outputs, nodes) with list objects li, lo and Node objects refs
OpenDigraph(S, g, li, lo, refs) ==
    [S EXCEPT !.graphs = (g :> [inputs |-> li, outputs |-> lo,
                                nodes |-> NodeDict(S.objs, refs, Len(refs))])
                         @@ S.graphs]

\* OpenDigraph.empty()
empty(S, g) ==
    LET li == NewRef(S.lists)
        S1 == [S EXCEPT !.lists = S.lists @@ (li :> <<>>)]
        lo == NewRef(S1.lists)
        S2 == [S1 EXCEPT !.lists = S1.lists @@ (lo :> <<>>)]
    IN OpenDigraph(S2, g, li, lo, <<>>)

get_input_ids(S, g) == S.lists[S.graphs[g].inputs]
get_output_ids(S, g) == S.lists[S.graphs[g].outputs]
get_id_node_map(S, g) == S.graphs[g].nodes
get_node_ids(S, g) == KeySeq(S.graphs[g].nodes)
\* the Node object stored under key node_id (the caller checks the key exists)
get_node_by_id(S, g, node_id) == S.objs[Get(S.graphs[g].nodes, node_id)]
get_nodes(S, g) == [i \in 1..Len(S.graphs[g].nodes) |-> S.objs[S.graphs[g].nodes[i][2]]]

\* in-place update of the Node object stored under key node_id
SetNode(S, g, node_id, n) == [S EXCEPT !.objs[Get(S.graphs[g].nodes, node_id)] = n]

set_inputs(S, g, new_inputs) ==
    IF ~Ok(S) THEN S
    ELSE IF \E i \in 1..Len(new_inputs) : ~InSeq(new_inputs[i], get_node_ids(S, g))
         THEN Raise(S, "ValueError")
         ELSE BindNewList(S, g, "inputs", new_inputs)

set_outputs(S, g, new_outputs) ==
    IF ~Ok(S) THEN S
    ELSE IF \E i \in 1..Len(new_outputs) : ~InSeq(new_outputs[i], get_node_ids(S, g))
         THEN Raise(S, "ValueError")
         ELSE BindNewList(S, g, "outputs", new_outputs)

\* the ValueError of the else branch is built but never raised
add_input_id(S, g, input_id) ==
    IF ~Ok(S) THEN S
    ELSE IF ~InSeq(input_id, get_input_ids(S, g)) /\ InSeq(input_id, get_node_ids(S, g))
         THEN [S EXCEPT !.lists[S.graphs[g].inputs] = Append(@, input_id)]
         ELSE S

add_output_id(S, g, output_id) ==
    IF ~Ok(S) THEN S
    ELSE IF ~InSeq(output_id, get_output_ids(S, g)) /\ InSeq(output_id, get_node_ids(S, g))
         THEN [S EXCEPT !.lists[S.graphs[g].outputs] = Append(@, output_id)]
         ELSE S

\* OpenDigraph.__eq__: lists compare in order, nodes compare with Node.__eq__
GraphEq(S, g1, g2) ==
    /\ get_input_ids(S, g1) = get_input_ids(S, g2)
    /\ get_output_ids(S, g1) = get_output_ids(S, g2)
    /\ Len(get_nodes(S, g1)) = Len(get_nodes(S, g2))
    /\ \A i \in 1..Len(get_nodes(S, g1)) : NodeEq(get_nodes(S, g1)[i], get_nodes(S, g2)[i])

\* copy builds new lists and a new node map over the SAME Node objects
copy(S, g, c) ==
    LET li == NewRef(S.lists)
        S1 == [S EXCEPT !.lists = S.lists @@ (li :> get_input_ids(S, g))]
        lo == NewRef(S1.lists)
        S2 == [S1 EXCEPT !.lists = S1.lists @@ (lo :> get_output_ids(S, g))]
        refs == [i \in 1..Len(S.graphs[g].nodes) |-> S.graphs[g].nodes[i][2]]
    IN OpenDigraph(S2, c, li, lo, refs)

new_id(S, g) ==
    LET used_ids == SeqSet(get_input_ids(S, g)) \cup SeqSet(get_output_ids(S, g))
                    \cup SeqSet(get_node_ids(S, g))
    IN IF used_ids # {} THEN SetMax(used_ids) + 1 ELSE 0

(***************************************************************************)
(* OpenDigraph: structural mutation                                        *)
(***************************************************************************)
add_edge(S, g, src, tgt) ==
    IF ~Ok(S) THEN S
    ELSE IF InSeq(src, get_node_ids(S, g)) /\ InSeq(tgt, get_node_ids(S, g))
         THEN LET S1 == SetNode(S, g, src, add_child_id(get_node_by_id(S, g, src), tgt))
              IN SetNode(S1, g, tgt, add_parent_id(get_node_by_id(S1, g, tgt), src))
         ELSE Raise(S, "ValueError")

\* the two calls name the endpoints the other way round: tgt loses the child
\* src and src loses the parent tgt
remove_edge(S, g, src, tgt) ==
    IF ~Ok(S) THEN S
    ELSE IF InSeq(src, get_node_ids(S, g)) /\ InSeq(tgt, get_node_ids(S, g))
         THEN LET S1 == SetNode(S, g, tgt, remove_child_once(get_node_by_id(S, g, tgt), src))
              IN SetNode(S1, g, src, remove_parent_once(get_node_by_id(S1, g, src), tgt))
         ELSE Raise(S, "ValueError")

remove_parallel_edges(S, g, src, tgt) ==
    IF ~Ok(S) THEN S
    ELSE IF InSeq(src, get_node_ids(S, g)) /\ InSeq(tgt, get_node_ids(S, g))
         THEN LET S1 == SetNode(S, g, tgt, remove_parent_id(get_node_by_id(S, g, tgt), src))
              IN SetNode(S1, g, src, remove_child_id(get_node_by_id(S1, g, src), tgt))
         ELSE Raise(S, "ValueError")

\* for x in xs: new_node.add_parent_id(x)  /  new_node.add_child_id(x)
RECURSIVE AddAll(_, _, _)
AddAll(d, xs, i) ==
    IF i = 0 THEN d
    ELSE LET d1 == AddAll(d, xs, i - 1)
         IN Put(d1, xs[i], Mult(d1, xs[i]) + 1)

add_node(S, g, label, parents, children) ==
    IF ~Ok(S) THEN S
    ELSE LET nodes == get_node_ids(S, g)
             k == new_id(S, g)
         IN IF \E i \in 1..Len(parents) : ~InSeq(parents[i], nodes)
            THEN Raise(S, "ValueError")
            ELSE IF \E i \in 1..Len(children) : ~InSeq(children[i], nodes)
            THEN Raise(S, "ValueError")
            ELSE LET r == NewRef(S.objs)
                     new_node == Node(k, label, AddAll(EmptyDict, parents, Len(parents)),
                                      AddAll(EmptyDict, children, Len(children)))
                 IN [S EXCEPT !.objs = S.objs @@ (r :> new_node),
                              !.graphs[g].nodes = Put(@, k, r),
                              !.ret = Some(k)]

\* Node(node_id, "", {}, {}) stored under key node_id of graph g
NewNodeAt(S, g, node_id) ==
    LET r == NewRef(S.objs)
    IN [S EXCEPT !.objs = S.objs @@ (r :> Node(node_id, "", EmptyDict, EmptyDict)),
                 !.graphs[g].nodes = Put(@, node_id, r)]

\* add_input_node that leaves the absent child for add_edge to find
add_input_node_unchecked_child(S, g, node_id, child_id) ==
    IF ~Ok(S) THEN S
    ELSE IF InSeq(node_id, get_node_ids(S, g)) THEN Raise(S, "ValueError")
    ELSE add_edge(add_input_id(NewNodeAt(S, g, node_id), g, node_id), g, node_id, child_id)

add_input_node(S, g, node_id, child_id) ==
    IF ~Ok(S) THEN S
    ELSE IF InSeq(node_id, get_node_ids(S, g)) THEN Raise(S, "ValueError")
    ELSE IF ~InSeq(child_id, get_node_ids(S, g)) THEN Raise(S, "ValueError")
    ELSE add_edge(add_input_id(NewNodeAt(S, g, node_id), g, node_id), g, node_id, child_id)

add_output_node(S, g, node_id, parent_id) ==
    IF ~Ok(S) THEN S
    ELSE IF InSeq(node_id, get_node_ids(S, g)) THEN Raise(S, "ValueError")
    ELSE IF ~InSeq(parent_id, get_node_ids(S, g)) THEN Raise(S, "ValueError")
    ELSE add_edge(add_output_id(NewNodeAt(S, g, node_id), g, node_id), g, parent_id, node_id)

\* for parent in parents: self.remove_parallel_edges(parent, identity)
RECURSIVE remove_id_parents(_, _, _, _, _)
remove_id_parents(S, g, identity, parents, i) ==
    IF i > Len(parents) THEN S
    ELSE remove_id_parents(remove_parallel_edges(S, g, parents[i], identity),
                           g, identity, parents, i + 1)

\* for child in children: self.remove_parallel_edges(identity, child)
RECURSIVE remove_id_children(_, _, _, _, _)
remove_id_children(S, g, identity, children, i) ==
    IF i > Len(children) THEN S
    ELSE remove_id_children(remove_parallel_edges(S, g, identity, children[i]),
                            g, identity, children, i + 1)

\* the last branch hands the filtered OUTPUTS to set_inputs
remove_id_interface(S, g, identity) ==
    IF ~Ok(S) THEN S
    ELSE LET inputs == get_input_ids(S, g)
             outputs == get_output_ids(S, g)
         IN IF InSeq(identity, inputs) THEN set_inputs(S, g, Without(inputs, identity))
            ELSE IF InSeq(identity, outputs) THEN set_inputs(S, g, Without(outputs, identity))
            ELSE S

\* self.nodes.pop(identity)
PopNode(S, g, identity) ==
    IF ~Ok(S) THEN S ELSE [S EXCEPT !.graphs[g].nodes = Del(@, identity)]

remove_id(S, g, identity) ==
    IF ~Ok(S) THEN S
    ELSE IF InSeq(identity, get_node_ids(S, g))
         THEN LET parents == KeySeq(get_node_by_id(S, g, identity).parents)
                  children == KeySeq(get_node_by_id(S, g, identity).children)
                  S1 == remove_id_parents(S, g, identity, parents, 1)
                  S2 == remove_id_children(S1, g, identity, children, 1)
              IN remove_id_interface(PopNode(S2, g, identity), g, identity)
         ELSE S

\* one round of the first loop of merge_nodes: node1 gains the child, then the
\* child (looked up in self.nodes, KeyError when absent) gains the parent node1
merge_child(S, g, node_id1, child_id) ==
    IF ~Ok(S) THEN S
    ELSE LET S1 == SetNode(S, g, node_id1, add_child_id(get_node_by_id(S, g, node_id1), child_id))
         IN IF Has(S1.graphs[g].nodes, child_id)
            THEN SetNode(S1, g, child_id, add_parent_id(get_node_by_id(S1, g, child_id), node_id1))
            ELSE Raise(S1, "KeyError")

merge_parent(S, g, node_id1, parent_id) ==
    IF ~Ok(S) THEN S
    ELSE LET S1 == SetNode(S, g, node_id1, add_parent_id(get_node_by_id(S, g, node_id1), parent_id))
         IN IF Has(S1.graphs[g].nodes, parent_id)
            THEN SetNode(S1, g, parent_id, add_child_id(get_node_by_id(S1, g, parent_id), node_id1))
            ELSE Raise(S1, "KeyError")

RECURSIVE merge_children(_, _, _, _, _)
merge_children(S, g, node_id1, keys, i) ==
    IF i > Len(keys) THEN S
    ELSE merge_children(merge_child(S, g, node_id1, keys[i]), g, node_id1, keys, i + 1)

RECURSIVE merge_parents(_, _, _, _, _)
merge_parents(S, g, node_id1, keys, i) ==
    IF i > Len(keys) THEN S
    ELSE merge_parents(merge_parent(S, g, node_id1, keys[i]), g, node_id1, keys, i + 1)

\* label = "" stands for label=None: the label of node1 is kept
merge_nodes(S, g, node_id1, node_id2, label) ==
    IF ~Ok(S) THEN S
    ELSE IF ~Has(S.graphs[g].nodes, node_id1) \/ ~Has(S.graphs[g].nodes, node_id2)
         THEN Raise(S, "ValueError")
         ELSE LET S0 == IF label = "" THEN S
                        ELSE SetNode(S, g, node_id1,
                                     [get_node_by_id(S, g, node_id1) EXCEPT !.label = label])
                  S1 == merge_children(S0, g, node_id1,
                                       KeySeq(get_node_by_id(S0, g, node_id2).children), 1)
                  S2 == IF Ok(S1)
                        THEN merge_parents(S1, g, node_id1,
                                           KeySeq(get_node_by_id(S1, g, node_id2).parents), 1)
                        ELSE S1
              IN IF Ok(S2) THEN [PopNode(S2, g, node_id2) EXCEPT !.ret = Some(node_id1)] ELSE S2

\* one round of the loop of shift_indices over get_nodes(): the Node object r
\* gets its id and the keys of both its dicts shifted by n
shift_node(heap, r, n) ==
    [heap EXCEPT ![r] = [id |-> @.id + n,
                         label |-> @.label,
                         parents |-> [i \in 1..Len(@.parents) |->
                                         <<@.parents[i][1] + n, @.parents[i][2]>>],
                         children |-> [i \in 1..Len(@.children) |->
                                         <<@.children[i][1] + n, @.children[i][2]>>]]]

RECURSIVE shift_nodes(_, _, _, _)
shift_nodes(heap, refs, i, n) ==
    IF i > Len(refs) THEN heap
    ELSE shift_nodes(shift_node(heap, refs[i], n), refs, i + 1, n)

\* the lists are rebound to shifted lists and every Node object is shifted in
\* place; the keys of self.nodes are left as they were
shift_indices(S, g, n) ==
    IF ~Ok(S) THEN S
    ELSE LET new_input == [i \in 1..Len(get_input_ids(S, g)) |-> get_input_ids(S, g)[i] + n]
             S1 == BindNewList(S, g, "inputs", new_input)
             new_output == [i \in 1..Len(get_output_ids(S1, g)) |-> get_output_ids(S1, g)[i] + n]
             S2 == BindNewList(S1, g, "outputs", new_output)
             refs == [i \in 1..Len(S2.graphs[g].nodes) |-> S2.graphs[g].nodes[i][2]]
         IN [S2 EXCEPT !.objs = shift_nodes(S2.objs, refs, 1, n)]

\* get_node_by_id(node_id).set_label(new_label)
set_label(S, g, node_id, new_label) ==
    IF ~Ok(S) THEN S
    ELSE IF Has(S.graphs[g].nodes, node_id)
         THEN SetNode(S, g, node_id, [get_node_by_id(S, g, node_id) EXCEPT !.label = new_label])
         ELSE Raise(S, "KeyError")

(***************************************************************************)
(* OpenDigraph: composition                                                *)
(***************************************************************************)
\* float('inf'): larger than every id of the model
Inf == 1000000

RECURSIVE SetMin(_)
SetMin(S) == LET x == CHOOSE y \in S : TRUE
             IN IF S = {x} THEN x
                ELSE LET m == SetMin(S \ {x}) IN IF x < m THEN x ELSE m

\* the ids the Node objects of g carry (not the keys of the node map)
NodeIds(S, g) == {get_nodes(S, g)[i].id : i \in 1..Len(get_nodes(S, g))}

min_id(S, g) == IF NodeIds(S, g) = {} THEN Inf ELSE SetMin(NodeIds(S, g))
max_id(S, g) == IF NodeIds(S, g) = {} THEN -Inf ELSE SetMax(NodeIds(S, g))

\* a local variable going out of scope
Forget(S, g) == [S EXCEPT !.graphs = [h \in DOMAIN S.graphs \ {g} |-> S.graphs[h]]]

\* for node in src.get_node_ids(): self.nodes[node] = src.nodes[node]
RECURSIVE take_nodes(_, _, _, _)
take_nodes(S, self, src, i) ==
    IF i > Len(S.graphs[src].nodes) THEN S
    ELSE take_nodes([S EXCEPT !.graphs[self].nodes =
                                  Put(@, S.graphs[src].nodes[i][1], S.graphs[src].nodes[i][2])],
                    self, src, i + 1)

\* one round of the connecting loop: the node under key inputs[i] gains the
\* parent outputs[i], then the node under key outputs[i] gains the child
\* inputs[i]; a list too short raises IndexError, a missing key KeyError
connect(S, self, inputs, outputs, i) ==
    IF ~Ok(S) THEN S
    ELSE IF i > Len(inputs) THEN Raise(S, "IndexError")
    ELSE IF ~Has(S.graphs[self].nodes, inputs[i]) THEN Raise(S, "KeyError")
    ELSE IF i > Len(outputs) THEN Raise(S, "IndexError")
    ELSE LET S1 == SetNode(S, self, inputs[i],
                           add_parent_id(get_node_by_id(S, self, inputs[i]), outputs[i]))
         IN IF ~Has(S1.graphs[self].nodes, outputs[i]) THEN Raise(S1, "KeyError")
            ELSE SetNode(S1, self, outputs[i],
                         add_child_id(get_node_by_id(S1, self, outputs[i]), inputs[i]))

RECURSIVE connect_all(_, _, _, _, _, _)
connect_all(S, self, inputs, outputs, i, n) ==
    IF i > n THEN S
    ELSE connect_all(connect(S, self, inputs, outputs, i), self, inputs, outputs, i + 1, n)

\* self.compose(f1, f2); tmp names the local f2_copy
compose(S, self, f1, f2, tmp) ==
    IF ~Ok(S) THEN S
    ELSE IF Len(get_input_ids(S, f1)) # Len(get_output_ids(S, f2))
    THEN Raise(S, "ValueError")
    ELSE LET m == max_id(S, f1) - min_id(S, f2) + 1
             S1 == copy(S, f2, tmp)
             S2 == IF m > 0 THEN shift_indices(S1, tmp, m) ELSE S1
             S3 == take_nodes(S2, self, f1, 1)
             S4 == take_nodes(S3, self, tmp, 1)
             S5 == connect_all(S4, self, get_input_ids(S4, f1), get_output_ids(S4, tmp),
                               1, Len(get_output_ids(S4, f2)))
             S6 == IF Ok(S5)
                   THEN [S5 EXCEPT !.graphs[self].inputs = S5.graphs[tmp].inputs,
                                   !.graphs[self].outputs = S5.graphs[f1].outputs]
                   ELSE S5
         IN Forget(S6, tmp)

\* for node in src: lst.append(node), on the list object lst
append_all(S, lst, src) == [S EXCEPT !.lists[lst] = @ \o src]

\* self.iparallel(g); tmp names the local g_copy
iparallel(S, self, g, tmp) ==
    IF ~Ok(S) THEN S
    ELSE LET m == max_id(S, self) - min_id(S, g) + 1
             S1 == copy(S, g, tmp)
             S2 == IF m > 0 THEN shift_indices(S1, tmp, m) ELSE S1
             S3 == append_all(S2, S2.graphs[self].inputs, get_input_ids(S2, tmp))
             S4 == append_all(S3, S3.graphs[self].outputs, get_output_ids(S3, tmp))
             S5 == take_nodes(S4, self, tmp, 1)
         IN Forget(S5, tmp)

\* the three loops that add the inputs, outputs and nodes of src to self
add_all_of(S, self, src) ==
    CHOOSE r \in {take_nodes(append_all(append_all(T, T.graphs[self].inputs, get_input_ids(T, src)),
                                        T.graphs[self].outputs, get_output_ids(T, src)),
                             self, src, 1) : T \in {S}} : TRUE

\* self.parallel(g1, g2); tmp names the local g2_copy
parallel(S, self, g1, g2, tmp) ==
    IF ~Ok(S) THEN S
    ELSE LET m == max_id(S, g1) - min_id(S, g2) + 1
             S1 == copy(S, g2, tmp)
             S2 == IF m > 0 THEN shift_indices(S1, tmp, m) ELSE S1
         IN Forget(add_all_of(add_all_of(S2, self, g1), self, tmp), tmp)

\* self.icompose(f); tmp names the local f_copy
icompose(S, self, f, tmp) ==
    IF ~Ok(S) THEN S
    ELSE IF Len(get_input_ids(S, self)) # Len(get_output_ids(S, f))
    THEN Raise(S, "ValueError")
    ELSE LET m == max_id(S, self) - min_id(S, f) + 1
             S1 == copy(S, f, tmp)
             S2 == IF m > 0 THEN shift_indices(S1, tmp, m) ELSE S1
             S3 == take_nodes(S2, self, tmp, 1)
             S4 == connect_all(S3, self, get_input_ids(S3, self), get_output_ids(S3, tmp),
                               1, Len(get_output_ids(S3, f)))
             S5 == IF Ok(S4)
                   THEN [S4 EXCEPT !.graphs[self].inputs = S4.graphs[tmp].inputs]
                   ELSE S4
         IN Forget(S5, tmp)

(***************************************************************************)
(* OpenDigraph.is_well_formed: "True", "False", or "KeyError" when the     *)
(* lookup of a neighbour in property 5 meets an id that is not a key       *)
(***************************************************************************)
FirstBad(rs) ==
    IF \E i \in 1..Len(rs) : rs[i] # "True"
    THEN rs[CHOOSE i \in 1..Len(rs) : rs[i] # "True" /\ \A j \in 1..(i - 1) : rs[j] = "True"]
    ELSE "True"

wf_property1(S, g) ==
    /\ \A i \in 1..Len(get_input_ids(S, g)) : InSeq(get_input_ids(S, g)[i], get_node_ids(S, g))
    /\ \A i \in 1..Len(get_output_ids(S, g)) : InSeq(get_output_ids(S, g)[i], get_node_ids(S, g))

wf_property2(S, g) ==
    \A i \in 1..Len(get_input_ids(S, g)) :
        LET input_node == get_node_by_id(S, g, get_input_ids(S, g)[i])
        IN /\ ~(Len(input_node.children) # 1 \/ Len(input_node.parents) > 0)
           /\ \A j \in 1..Len(input_node.children) : input_node.children[j][2] = 1

wf_property3(S, g) ==
    \A i \in 1..Len(get_output_ids(S, g)) :
        LET output_node == get_node_by_id(S, g, get_output_ids(S, g)[i])
        IN /\ ~(Len(output_node.children) > 0 \/ Len(output_node.parents) # 1)
           /\ \A j \in 1..Len(output_node.parents) : output_node.parents[j][2] = 1

wf_property4(S, g) ==
    \A i \in 1..Len(S.graphs[g].nodes) :
        S.objs[S.graphs[g].nodes[i][2]].id = S.graphs[g].nodes[i][1]

\* the checks of one node, in the order the loops make them
wf_property5_node(S, g, node_id, node) ==
    LET down == [j \in 1..Len(node.children) |->
                    LET child_id == node.children[j][1]
                        multiplicity == node.children[j][2]
                    IN IF ~Has(S.graphs[g].nodes, child_id) THEN "KeyError"
                       ELSE LET parents == get_node_by_id(S, g, child_id).parents
                            IN IF ~Has(parents, node_id) \/ Get(parents, node_id) # multiplicity
                               THEN "False" ELSE "True"]
        up == [j \in 1..Len(node.parents) |->
                    LET parent_id == node.parents[j][1]
                        multiplicity == node.parents[j][2]
                    IN IF ~Has(S.graphs[g].nodes, parent_id) THEN "KeyError"
                       ELSE LET children == get_node_by_id(S, g, parent_id).children
                            IN IF ~Has(children, node_id) \/ Get(children, node_id) # multiplicity
                               THEN "False" ELSE "True"]
    IN FirstBad(down \o up)

wf_property5(S, g) ==
    FirstBad([i \in 1..Len(S.graphs[g].nodes) |->
                 wf_property5_node(S, g, S.graphs[g].nodes[i][1], S.objs[S.graphs[g].nodes[i][2]])])

is_well_formed(S, g) ==
    IF ~wf_property1(S, g) THEN "False"
    ELSE IF ~wf_property2(S, g) THEN "False"
    ELSE IF ~wf_property3(S, g) THEN "False"
    ELSE IF ~wf_property4(S, g) THEN "False"
    ELSE wf_property5(S, g)

(***************************************************************************)
(* The program: one graph g, built from OpenDigraph.empty() by calls of    *)
(* its public mutators.  last records the call just made, its arguments,   *)
(* the exception it raised ("none" when it returned) and what it returned. *)
(***************************************************************************)
\* the bounds: what a call may leave behind
Within(S) ==
    /\ \A g \in DOMAIN S.graphs :
          /\ Len(S.graphs[g].nodes) <= MaxNodes
          /\ \A i \in 1..Len(S.graphs[g].nodes) : S.graphs[g].nodes[i][1] <= MaxId
    /\ \A r \in DOMAIN S.objs :
          /\ \A i \in 1..Len(S.objs[r].parents) : S.objs[r].parents[i][2] <= MaxMult
          /\ \A i \in 1..Len(S.objs[r].children) : S.objs[r].children[i][2] <= MaxMult

\* what a call leaves behind once the objects nobody refers to are collected
Commit(S, op) ==
    LET C == Collect(S)
    IN /\ calls < MaxCalls
       /\ Within(C)
       /\ calls' = calls + 1
       /\ objs' = C.objs
       /\ lists' = C.lists
       /\ graphs' = C.graphs
       /\ last' = [op |-> op, err |-> S.err]

EmptyStore == [objs |-> <<>>, lists |-> <<>>, graphs |-> <<>>, err |-> "none", ret |-> None]

Init ==
    /\ objs = empty(EmptyStore, "g").objs
    /\ lists = empty(EmptyStore, "g").lists
    /\ graphs = empty(EmptyStore, "g").graphs
    /\ last = [op |-> "empty", err |-> "none"]
    /\ calls = 0

\* the parents and children lists a caller hands to add_node
NodeArgs == {pc \in SeqsUpTo(Ids, MaxArgs) \X SeqsUpTo(Ids, MaxArgs) :
                Len(pc[1]) + Len(pc[2]) <= MaxArgs}

AddNode(g) ==
    \E label \in Labels, pc \in NodeArgs :
        Commit(add_node(Store, g, label, pc[1], pc[2]), "add_node")

AddEdge(g) ==
    \E src \in Ids, tgt \in Ids : Commit(add_edge(Store, g, src, tgt), "add_edge")

RemoveEdge(g) ==
    \E src \in Ids, tgt \in Ids : Commit(remove_edge(Store, g, src, tgt), "remove_edge")

RemoveParallelEdges(g) ==
    \E src \in Ids, tgt \in Ids :
        Commit(remove_parallel_edges(Store, g, src, tgt), "remove_parallel_edges")

AddInputNode(g) ==
    \E node_id \in Ids, child_id \in Ids :
        Commit(add_input_node(Store, g, node_id, child_id), "add_input_node")

AddOutputNode(g) ==
    \E node_id \in Ids, parent_id \in Ids :
        Commit(add_output_node(Store, g, node_id, parent_id), "add_output_node")

RemoveId(g) ==
    \E identity \in Ids : Commit(remove_id(Store, g, identity), "remove_id")

MergeNodes(g) ==
    \E node_id1 \in Ids, node_id2 \in Ids, label \in {""} \cup Labels :
        Commit(merge_nodes(Store, g, node_id1, node_id2, label), "merge_nodes")

Next ==
    \/ AddNode("g")
    \/ AddEdge("g")
    \/ RemoveEdge("g")
    \/ RemoveParallelEdges("g")
    \/ AddInputNode("g")
    \/ AddOutputNode("g")
    \/ RemoveId("g")
    \/ MergeNodes("g")

Spec == Init /\ [][Next]_vars

\* the same program when every call returns normally
Returned == last'.err = "none"

NextOk ==
    \/ AddNode("g") /\ Returned
    \/ AddEdge("g") /\ Returned
    \/ RemoveEdge("g") /\ Returned
    \/ RemoveParallelEdges("g") /\ Returned
    \/ AddInputNode("g") /\ Returned
    \/ AddOutputNode("g") /\ Returned
    \/ RemoveId("g") /\ Returned
    \/ MergeNodes("g") /\ Returned

SpecOk == Init /\ [][NextOk]_vars

(***************************************************************************)
(* The program of SpecCopy: g is built as above, then c = g.copy() is      *)
(* taken and the calls are made on c.                                      *)
(***************************************************************************)
Shifts == {-1, 1}

Copy ==
    /\ "c" \notin DOMAIN graphs
    /\ Commit(copy(Store, "g", "c"), "copy")

ShiftIndices(g) ==
    \E n \in Shifts : Commit(shift_indices(Store, g, n), "shift_indices")

SetLabel(g) ==
    \E node_id \in Ids, new_label \in Labels \cup {"b"} :
        Commit(set_label(Store, g, node_id, new_label), "set_label")

Mutate(g) ==
    \/ AddNode(g)
    \/ AddEdge(g)
    \/ RemoveEdge(g)
    \/ RemoveParallelEdges(g)
    \/ AddInputNode(g)
    \/ AddOutputNode(g)
    \/ RemoveId(g)
    \/ MergeNodes(g)

NextCopy ==
    \/ "c" \notin DOMAIN graphs /\ Mutate("g")
    \/ Copy
    \/ "c" \in DOMAIN graphs /\ Mutate("c")
    \/ "c" \in DOMAIN graphs /\ ShiftIndices("c")
    \/ "c" \in DOMAIN graphs /\ SetLabel("c")

SpecCopy == Init /\ [][NextCopy]_vars

(***************************************************************************)
(* What a caller can observe of a graph                                    *)
(***************************************************************************)
\* the node map with every node's fields, the inputs and the outputs
GraphView(S, g) ==
    [inputs |-> get_input_ids(S, g),
     outputs |-> get_output_ids(S, g),
     nodes |-> [i \in 1..Len(S.graphs[g].nodes) |->
                   <<S.graphs[g].nodes[i][1], S.objs[S.graphs[g].nodes[i][2]]>>]]

\* the step taken is a call that returned and left the store S behind
Did(S, op) ==
    /\ Ok(S)
    /\ last' = [op |-> op, err |-> "none"]
    /\ objs' = Collect(S).objs
    /\ lists' = Collect(S).lists
    /\ graphs' = Collect(S).graphs

\* C1: copy(g) == g, and no later call on the copy changes what g holds
C1_CopyIsIndependent ==
    [][/\ (last'.op = "copy" /\ last'.err = "none") => GraphEq(Store', "c", "g")
       /\ ("c" \in DOMAIN graphs /\ "c" \in DOMAIN graphs')
             => GraphView(Store', "g") = GraphView(Store, "g")]_vars

(***************************************************************************)
(* Edges as the two endpoints record them                                  *)
(***************************************************************************)
Keys(S, g) == KeySet(S.graphs[g].nodes)
\* multiplicity of the edge x -> y as x records it / as y records it
ChildMult(S, g, x, y) == Mult(get_node_by_id(S, g, x).children, y)
ParentMult(S, g, x, y) == Mult(get_node_by_id(S, g, y).parents, x)
Count(s, x) == Cardinality({i \in 1..Len(s) : s[i] = x})

AdjacencyConsistent(S, g) ==
    \A x \in Keys(S, g) :
        LET n == get_node_by_id(S, g, x)
        IN /\ KeySet(n.parents) \subseteq Keys(S, g)
           /\ KeySet(n.children) \subseteq Keys(S, g)
           /\ \A i \in 1..Len(n.parents) : n.parents[i][2] >= 1
           /\ \A i \in 1..Len(n.children) : n.children[i][2] >= 1
           /\ \A y \in Keys(S, g) : ChildMult(S, g, x, y) = ParentMult(S, g, x, y)

\* C2: in every graph built from the empty graph by calls that returned, the
\* ids in the parents and children maps are keys of the node map, every
\* multiplicity is at least 1 and both endpoints record the same multiplicity
C2_AdjacencyConsistent == AdjacencyConsistent(Store, "g")

PublicMutations == {"add_node", "add_input_node", "add_output_node", "remove_id",
                    "add_edge", "remove_edge", "merge_nodes"}

\* C3: a public mutation that returns leaves a well-formed graph well-formed
C3_MutationKeepsWellFormed ==
    [][(/\ is_well_formed(Store, "g") = "True"
        /\ last'.op \in PublicMutations
        /\ last'.err = "none")
          => is_well_formed(Store', "g") = "True"]_vars

\* C4: remove_edge(src, tgt) takes one occurrence of src -> tgt away on both
\* endpoints and changes no other edge, and it undoes add_edge(src, tgt)
C4_RemoveEdgeRemovesOne ==
    [][\A src \in Keys(Store, "g"), tgt \in Keys(Store, "g") :
          /\ (/\ AdjacencyConsistent(Store, "g")
              /\ Did(remove_edge(Store, "g", src, tgt), "remove_edge"))
                => \A x \in Keys(Store, "g"), y \in Keys(Store, "g") :
                      LET m == ChildMult(Store, "g", x, y)
                          expected == IF x = src /\ y = tgt /\ m > 0 THEN m - 1 ELSE m
                      IN /\ ChildMult(Store', "g", x, y) = expected
                         /\ ParentMult(Store', "g", x, y) = expected
          /\ (/\ AdjacencyConsistent(Store, "g")
              /\ Did(add_edge(Store, "g", src, tgt), "add_edge"))
                => GraphView(remove_edge(Store', "g", src, tgt), "g") = GraphView(Store, "g")]_vars

\* C5: add_node(label, parents, children) returning k stores k with that
\* label, and k and each listed neighbour record the edge between them with
\* the number of times the neighbour was listed
C5_AddNodeWiresNeighbours ==
    [][\A label \in Labels, pc \in NodeArgs :
          Did(add_node(Store, "g", label, pc[1], pc[2]), "add_node")
             => LET k == add_node(Store, "g", label, pc[1], pc[2]).ret[1]
                IN /\ k \in Keys(Store', "g")
                   /\ get_node_by_id(Store', "g", k).label = label
                   /\ \A p \in SeqSet(pc[1]) :
                         /\ ParentMult(Store', "g", p, k) = Count(pc[1], p)
                         /\ ChildMult(Store', "g", p, k) = Count(pc[1], p)
                   /\ \A c \in SeqSet(pc[2]) :
                         /\ ChildMult(Store', "g", k, c) = Count(pc[2], c)
                         /\ ParentMult(Store', "g", k, c) = Count(pc[2], c)]_vars

\* C6: remove_id(x) takes x out of the node map, leaves no node naming x as a
\* parent or a child, and keeps every edge between the other nodes
C6_RemoveIdDetaches ==
    [][\A x \in Keys(Store, "g") :
          Did(remove_id(Store, "g", x), "remove_id")
             => /\ x \notin Keys(Store', "g")
                /\ Keys(Store', "g") = Keys(Store, "g") \ {x}
                /\ \A y \in Keys(Store', "g") :
                      /\ ~Has(get_node_by_id(Store', "g", y).parents, x)
                      /\ ~Has(get_node_by_id(Store', "g", y).children, x)
                      /\ \A z \in Keys(Store', "g") :
                            /\ ChildMult(Store', "g", y, z) = ChildMult(Store, "g", y, z)
                            /\ ParentMult(Store', "g", y, z) = ParentMult(Store, "g", y, z)]_vars

\* C7: remove_id(x) drops x from the inputs and from the outputs and keeps
\* the other entries of both lists, in their order
C7_RemoveIdInterface ==
    [][\A x \in Keys(Store, "g") :
          Did(remove_id(Store, "g", x), "remove_id")
             => /\ get_input_ids(Store', "g") = Without(get_input_ids(Store, "g"), x)
                /\ get_output_ids(Store', "g") = Without(get_output_ids(Store, "g"), x)]_vars

\* C8: merge_nodes(a, b) with a # b leaves b out of the node map, the inputs,
\* the outputs and every parents and children map, and makes every other
\* neighbour of b a neighbour of a in the same direction
C8_MergeRemovesB ==
    [][\A a \in Keys(Store, "g"), b \in Keys(Store, "g"), label \in {""} \cup Labels :
          (/\ a # b
           /\ AdjacencyConsistent(Store, "g")
           /\ Did(merge_nodes(Store, "g", a, b, label), "merge_nodes"))
             => /\ b \notin Keys(Store', "g")
                /\ ~InSeq(b, get_input_ids(Store', "g"))
                /\ ~InSeq(b, get_output_ids(Store', "g"))
                /\ \A y \in Keys(Store', "g") :
                      /\ ~Has(get_node_by_id(Store', "g", y).parents, b)
                      /\ ~Has(get_node_by_id(Store', "g", y).children, b)
                /\ \A c \in KeySet(get_node_by_id(Store, "g", b).children) \ {a, b} :
                      Has(get_node_by_id(Store', "g", a).children, c)
                /\ \A c \in KeySet(get_node_by_id(Store, "g", b).parents) \ {a, b} :
                      Has(get_node_by_id(Store', "g", a).parents, c)]_vars

\* C9: merge_nodes(a, b) adds multiplicities: for every other node c the edge
\* a -> c afterwards has the multiplicity of a -> c plus that of b -> c
\* before, likewise c -> a, and both endpoints record it
C9_MergeAddsMultiplicities ==
    [][\A a \in Keys(Store, "g"), b \in Keys(Store, "g"), label \in {""} \cup Labels :
          (/\ a # b
           /\ AdjacencyConsistent(Store, "g")
           /\ Did(merge_nodes(Store, "g", a, b, label), "merge_nodes"))
             => \A c \in Keys(Store, "g") \ {a, b} :
                   /\ ChildMult(Store', "g", a, c)
                         = ChildMult(Store, "g", a, c) + ChildMult(Store, "g", b, c)
                   /\ ParentMult(Store', "g", a, c)
                         = ChildMult(Store, "g", a, c) + ChildMult(Store, "g", b, c)
                   /\ ChildMult(Store', "g", c, a)
                         = ChildMult(Store, "g", c, a) + ChildMult(Store, "g", c, b)
                   /\ ParentMult(Store', "g", c, a)
                         = ChildMult(Store, "g", c, a) + ChildMult(Store, "g", c, b)]_vars

(***************************************************************************)
(* The program of SpecCompose: f1 and f2 are built by calls of add_node,   *)
(* add_input_node, add_output_node and remove_id, then r = empty() and     *)
(* r.compose(f1, f2).                                                      *)
(***************************************************************************)
MaxSkip == 2      \* nodes added first and removed last, so that the ids start higher
MaxPorts == 2     \* most input nodes, and most output nodes, of f1 and of f2

RECURSIVE add_nodes(_, _, _)
add_nodes(S, g, n) == IF n = 0 THEN S ELSE add_node(add_nodes(S, g, n - 1), g, "a", <<>>, <<>>)

RECURSIVE add_input_nodes(_, _, _, _, _)
add_input_nodes(S, g, first, n, child) ==
    IF n = 0 THEN S
    ELSE add_input_node(add_input_nodes(S, g, first, n - 1, child), g, first + n - 1, child)

RECURSIVE add_output_nodes(_, _, _, _, _)
add_output_nodes(S, g, first, n, parent) ==
    IF n = 0 THEN S
    ELSE add_output_node(add_output_nodes(S, g, first, n - 1, parent), g, first + n - 1, parent)

RECURSIVE remove_ids(_, _, _)
remove_ids(S, g, n) == IF n = 0 THEN S ELSE remove_id(remove_ids(S, g, n - 1), g, n - 1)

\* g = empty(); skip + 1 calls of add_node; nin input nodes and nout output
\* nodes on the last node added; remove_id of the first skip nodes
Build(S, g, skip, nin, nout) ==
    LET S1 == add_nodes(empty(S, g), g, skip + 1)
        S2 == add_input_nodes(S1, g, skip + 1, nin, skip)
        S3 == add_output_nodes(S2, g, skip + 1 + nin, nout, skip)
    IN remove_ids(S3, g, skip)

Shapes == (0..MaxSkip) \X (0..MaxPorts) \X (0..MaxPorts)

InitCompose ==
    \E s1 \in Shapes, s2 \in Shapes :
        LET S == Collect(Build(Build(EmptyStore, "f1", s1[1], s1[2], s1[3]),
                               "f2", s2[1], s2[2], s2[3]))
        IN /\ objs = S.objs
           /\ lists = S.lists
           /\ graphs = S.graphs
           /\ last = [op |-> "empty", err |-> "none"]
           /\ calls = 0

Compose ==
    /\ "r" \notin DOMAIN graphs
    /\ LET S == Collect(compose(empty(Store, "r"), "r", "f1", "f2", "f2_copy"))
       IN /\ objs' = S.objs
          /\ lists' = S.lists
          /\ graphs' = S.graphs
          /\ last' = [op |-> "compose", err |-> S.err]
          /\ calls' = calls + 1

NextCompose == Compose

SpecCompose == InitCompose /\ [][NextCompose]_vars

\* C10: compose(f1, f2) raises ValueError exactly when f1 has not as many
\* inputs as f2 has outputs; otherwise the outputs of the result are those of
\* f1, its inputs are those of f2 after the shift, and for every position i
\* the i-th output of f2 and the i-th input of f1 both record one edge from
\* the former to the latter
C10_ComposeWiresPositionally ==
    [][last'.op = "compose" =>
         LET arity == Len(get_input_ids(Store, "f1")) = Len(get_output_ids(Store, "f2"))
             m == max_id(Store, "f1") - min_id(Store, "f2") + 1
             shift == IF m > 0 THEN m ELSE 0
             ins == get_input_ids(Store, "f1")
             outs == [i \in 1..Len(get_output_ids(Store, "f2")) |->
                         get_output_ids(Store, "f2")[i] + shift]
         IN /\ (last'.err = "ValueError") <=> ~arity
            /\ arity =>
                 /\ last'.err = "none"
                 /\ get_output_ids(Store', "r") = get_output_ids(Store, "f1")
                 /\ get_input_ids(Store', "r")
                       = [i \in 1..Len(get_input_ids(Store, "f2")) |->
                             get_input_ids(Store, "f2")[i] + shift]
                 /\ \A i \in 1..Len(outs) :
                       /\ Has(Store'.graphs["r"].nodes, outs[i])
                       /\ Has(Store'.graphs["r"].nodes, ins[i])
                       /\ ChildMult(Store', "r", outs[i], ins[i]) = 1
                       /\ ParentMult(Store', "r", outs[i], ins[i]) = 1]_vars

(***************************************************************************)
(* The combining program: f1 and f2 built as above, then one of            *)
(* r = empty(); r.compose(f1, f2), r = empty(); r.parallel(f1, f2),        *)
(* f1.iparallel(f2) and f1.icompose(f2), then a set_label on a node of the *)
(* graph that call produced.                                               *)
(***************************************************************************)
Parallel ==
    /\ "r" \notin DOMAIN graphs
    /\ LET S == Collect(parallel(empty(Store, "r"), "r", "f1", "f2", "g2_copy"))
       IN /\ objs' = S.objs
          /\ lists' = S.lists
          /\ graphs' = S.graphs
          /\ last' = [op |-> "parallel", err |-> S.err]
          /\ calls' = calls + 1

IParallel ==
    LET S == Collect(iparallel(Store, "f1", "f2", "g_copy"))
    IN /\ objs' = S.objs
       /\ lists' = S.lists
       /\ graphs' = S.graphs
       /\ last' = [op |-> "iparallel", err |-> S.err]
       /\ calls' = calls + 1

ICompose ==
    LET S == Collect(icompose(Store, "f1", "f2", "f_copy"))
    IN /\ objs' = S.objs
       /\ lists' = S.lists
       /\ graphs' = S.graphs
       /\ last' = [op |-> "icompose", err |-> S.err]
       /\ calls' = calls + 1

\* the graph the last combining call produced
Result == IF last.op \in {"compose", "parallel"} THEN "r" ELSE "f1"

Relabel ==
    /\ calls = 1
    /\ last.err = "none"
    /\ \E k \in SeqSet(get_node_ids(Store, Result)) :
          LET S == Collect(set_label(Store, Result, k, "b"))
          IN /\ objs' = S.objs
             /\ lists' = S.lists
             /\ graphs' = S.graphs
             /\ last' = [op |-> "set_label", err |-> S.err]
             /\ calls' = calls + 1

NextCombine ==
    \/ calls = 0 /\ Compose
    \/ calls = 0 /\ Parallel
    \/ calls = 0 /\ IParallel
    \/ calls = 0 /\ ICompose
    \/ Relabel

SpecCombine == InitCompose /\ [][NextCombine]_vars

\* C11: parallel(f1, f2) and compose(f1, f2) leave f1 and f2 as they were,
\* iparallel(f2) and icompose(f2) leave f2 as it was (node map, ids, labels,
\* parents, children, inputs, outputs), and a later set_label on the graph
\* produced changes no argument
C11_CombiningKeepsArguments ==
    [][/\ last'.op \in {"parallel", "compose"} =>
             /\ GraphView(Store', "f1") = GraphView(Store, "f1")
             /\ GraphView(Store', "f2") = GraphView(Store, "f2")
       /\ last'.op \in {"iparallel", "icompose"} =>
             GraphView(Store', "f2") = GraphView(Store, "f2")
       /\ last'.op = "set_label" =>
             /\ GraphView(Store', "f2") = GraphView(Store, "f2")
             /\ Result = "r" => GraphView(Store', "f1") = GraphView(Store, "f1")]_vars

\* the sequence s with n added to every element
Shifted(s, n) == [i \in 1..Len(s) |-> s[i] + n]

\* C12: after f1.iparallel(f2), with m the shift applied to f2: the nodes of
\* f1 are under their keys as before, every node of f2 is under its key plus
\* m and carries that id, the node count is the sum of both counts, and the
\* inputs and outputs are those of f1 followed by those of f2 plus m
C12_IParallelKeepsBoth ==
    [][last'.op = "iparallel" =>
         LET d == max_id(Store, "f1") - min_id(Store, "f2") + 1
             m == IF d > 0 THEN d ELSE 0
             old == GraphView(Store, "f1")
             arg == GraphView(Store, "f2")
             new == GraphView(Store', "f1")
         IN /\ last'.err = "none"
            /\ \A i \in 1..Len(old.nodes) :
                  /\ Has(new.nodes, old.nodes[i][1])
                  /\ Get(new.nodes, old.nodes[i][1]) = old.nodes[i][2]
            /\ \A i \in 1..Len(arg.nodes) :
                  /\ Has(new.nodes, arg.nodes[i][1] + m)
                  /\ Get(new.nodes, arg.nodes[i][1] + m).id = arg.nodes[i][1] + m
                  /\ Get(new.nodes, arg.nodes[i][1] + m).label = arg.nodes[i][2].label
            /\ Len(new.nodes) = Len(old.nodes) + Len(arg.nodes)
            /\ new.inputs = old.inputs \o Shifted(arg.inputs, m)
            /\ new.outputs = old.outputs \o Shifted(arg.outputs, m)]_vars

\* the dict d with n added to every key
ShiftedKeys(d, n) == [i \in 1..Len(d) |-> <<d[i][1] + n, d[i][2]>>]

\* the image of a graph view under id -> id + n
Image(v, n) ==
    [inputs |-> Shifted(v.inputs, n),
     outputs |-> Shifted(v.outputs, n),
     nodes |-> [i \in 1..Len(v.nodes) |->
                   <<v.nodes[i][1] + n,
                     [id |-> v.nodes[i][2].id + n,
                      label |-> v.nodes[i][2].label,
                      parents |-> ShiftedKeys(v.nodes[i][2].parents, n),
                      children |-> ShiftedKeys(v.nodes[i][2].children, n)]>>]]

\* C13: after shift_indices(n) the graph is the image of the graph before
\* under id -> id + n (keys of the node map, ids, keys of parents and
\* children, inputs, outputs; labels and multiplicities as before), and if
\* every node's id was its key before, it still is
C13_ShiftIsImage ==
    [][\A n \in Shifts :
          ("c" \in DOMAIN graphs /\ Did(shift_indices(Store, "c", n), "shift_indices")) =>
              /\ GraphView(Store', "c") = Image(GraphView(Store, "c"), n)
              /\ wf_property4(Store, "c") => wf_property4(Store', "c")]_vars

\* assert_is_well_formed: an exception of is_well_formed passes through
assert_is_well_formed(S, g) ==
    IF ~Ok(S) THEN S
    ELSE IF is_well_formed(S, g) = "KeyError" THEN Raise(S, "KeyError")
    ELSE IF is_well_formed(S, g) = "False" THEN Raise(S, "ValueError")
    ELSE S

\* invariant 5: every id in a parents or children map is a key of the node
\* map, and the node under it records the same multiplicity the other way
Invariant5(S, g) ==
    \A x \in Keys(S, g) :
        LET n == get_node_by_id(S, g, x)
        IN /\ \A i \in 1..Len(n.children) :
                 /\ n.children[i][1] \in Keys(S, g)
                 /\ Mult(get_node_by_id(S, g, n.children[i][1]).parents, x) = n.children[i][2]
           /\ \A i \in 1..Len(n.parents) :
                 /\ n.parents[i][1] \in Keys(S, g)
                 /\ Mult(get_node_by_id(S, g, n.parents[i][1]).children, x) = n.parents[i][2]

FiveInvariants(S, g) ==
    /\ wf_property1(S, g)
    /\ wf_property2(S, g)
    /\ wf_property3(S, g)
    /\ wf_property4(S, g)
    /\ Invariant5(S, g)

\* C14: in every state of the graph is_well_formed() returns True when the
\* five invariants hold and False when they do not, without raising, and
\* assert_is_well_formed() raises exactly when is_well_formed() is False
C14_WellFormedDecides ==
    /\ is_well_formed(Store, "g") = (IF FiveInvariants(Store, "g") THEN "True" ELSE "False")
    /\ ~Ok(assert_is_well_formed(Store, "g")) <=> is_well_formed(Store, "g") = "False"

(***************************************************************************)
(* Generated graphs: OpenDigraph.identity and graph_from_adjacency_matrix  *)
(***************************************************************************)
\* Node objects ns allocated one after the other; the references they get
FreshRefs(S, k) == [i \in 1..k |-> SetMax(DOMAIN S.objs \cup {0}) + i]
AllocNodes(S, ns) ==
    [S EXCEPT !.objs = [r \in DOMAIN S.objs \cup SeqSet(FreshRefs(S, Len(ns))) |->
                           IF r \in DOMAIN S.objs THEN S.objs[r]
                           ELSE ns[r - SetMax(DOMAIN S.objs \cup {0})]]]

\* identity(n) with the add_parent_id call of the loop left out
identity_child_only(S, g, n) ==
    LET t == [i \in 1..n |-> i - 1]
        nodes == [i \in 1..n |-> add_child_id(Node(i - 1, "&", EmptyDict, EmptyDict), i - 1)]
        lt == NewRef(S.lists)
        S1 == [S EXCEPT !.lists = S.lists @@ (lt :> t)]
    IN OpenDigraph(AllocNodes(S1, nodes), g, lt, lt, FreshRefs(S1, n))

\* OpenDigraph.identity(n): n nodes labelled '&', each its own child and its
\* own parent; the one list t is both the inputs and the outputs
identity(S, g, n) ==
    LET t == [i \in 1..n |-> i - 1]
        nodes == [i \in 1..n |->
                     add_parent_id(add_child_id(Node(i - 1, "&", EmptyDict, EmptyDict), i - 1),
                                   i - 1)]
        lt == NewRef(S.lists)
        S1 == [S EXCEPT !.lists = S.lists @@ (lt :> t)]
    IN OpenDigraph(AllocNodes(S1, nodes), g, lt, lt, FreshRefs(S1, n))

\* the dict {i: row[i]} over the non-zero entries of a row, in index order
RECURSIVE RowDict(_, _)
RowDict(row, k) ==
    IF k = 0 THEN EmptyDict
    ELSE IF row[k] # 0 THEN Put(RowDict(row, k - 1), k - 1, row[k])
    ELSE RowDict(row, k - 1)

\* graph_from_adjacency_matrix(matrix): the node of id k - 1 has the children
\* of row k and the parents of column k, and its label is str(k - 1); no
\* inputs, no outputs
graph_from_adjacency_matrix(S, g, matrix) ==
    LET n == Len(matrix)
    IN IF \E i \in 1..n : Len(matrix[i]) # n THEN Raise(S, "ValueError")
       ELSE LET nodes == [k \in 1..n |->
                             Node(k - 1, ToString(k - 1),
                                  RowDict([i \in 1..n |-> matrix[i][k]], n),
                                  RowDict(matrix[k], n))]
                li == NewRef(S.lists)
                S1 == [S EXCEPT !.lists = S.lists @@ (li :> <<>>)]
                lo == NewRef(S1.lists)
                S2 == [S1 EXCEPT !.lists = S1.lists @@ (lo :> <<>>)]
            IN OpenDigraph(AllocNodes(S2, nodes), g, li, lo, FreshRefs(S2, n))

(***************************************************************************)
(* OpenDigraph.is_cyclic: depth-first search with the dicts visited and    *)
(* stack, here the sets of the ids they map to True.  The result is        *)
(* "True", "False", or "KeyError" when a child id is not a key of visited. *)
(***************************************************************************)
RECURSIVE dfs_util(_, _, _, _, _)
RECURSIVE dfs_neighbors(_, _, _, _, _, _)
\* the loop of dfs_util over the children ch of a node, from position i
dfs_neighbors(S, g, ch, i, v, s) ==
    IF i > Len(ch) THEN [res |-> "False", v |-> v, s |-> s]
    ELSE LET neighbor_id == ch[i]
         IN IF neighbor_id \notin Keys(S, g) THEN [res |-> "KeyError", v |-> v, s |-> s]
            ELSE IF neighbor_id \notin v
            THEN LET r == dfs_util(S, g, neighbor_id, v, s)
                 IN IF r.res # "False" THEN r
                    ELSE dfs_neighbors(S, g, ch, i + 1, r.v, r.s)
            ELSE IF neighbor_id \in s THEN [res |-> "True", v |-> v, s |-> s]
            ELSE dfs_neighbors(S, g, ch, i + 1, v, s)

dfs_util(S, g, node_id, v, s) ==
    LET r == dfs_neighbors(S, g, KeySeq(get_node_by_id(S, g, node_id).children), 1,
                           v \cup {node_id}, s \cup {node_id})
    IN IF r.res = "False" THEN [r EXCEPT !.s = @ \ {node_id}] ELSE r

\* the loop of is_cyclic over get_node_ids(), from position i
RECURSIVE dfs_roots(_, _, _, _, _)
dfs_roots(S, g, i, v, s) ==
    IF i > Len(get_node_ids(S, g)) THEN "False"
    ELSE IF get_node_ids(S, g)[i] \in v THEN dfs_roots(S, g, i + 1, v, s)
    ELSE LET r == dfs_util(S, g, get_node_ids(S, g)[i], v, s)
         IN IF r.res # "False" THEN r.res ELSE dfs_roots(S, g, i + 1, r.v, r.s)

\* the search started from the first node only
is_cyclic_first_root(S, g) ==
    IF get_node_ids(S, g) = <<>> THEN "False"
    ELSE dfs_util(S, g, get_node_ids(S, g)[1], {}, {}).res
is_cyclic(S, g) == dfs_roots(S, g, 1, {}, {})

(***************************************************************************)
(* The generated-graph program: g = OpenDigraph.identity(n) or             *)
(* g = graph_from_adjacency_matrix(matrix), then one query on g.  Here     *)
(* last also records how g was made and what the query returned.           *)
(***************************************************************************)
MaxSize == 3      \* most rows of a matrix, and the largest n of identity(n)
MaxEdges == 2     \* most non-zero entries of a matrix
MaxEntry == 1     \* largest entry of a matrix

Cells(n) == (1..n) \X (1..n)
\* the square matrices of size n with at most MaxEdges non-zero entries
Matrices(n) ==
    UNION {{[r \in 1..n |-> [c \in 1..n |-> IF <<r, c>> \in E THEN w[<<r, c>>] ELSE 0]] :
               w \in [E -> 1..MaxEntry]} :
           E \in {F \in SUBSET Cells(n) : Cardinality(F) <= MaxEdges}}

Made(S, by, n) ==
    LET C == Collect(S)
    IN /\ objs = C.objs
       /\ lists = C.lists
       /\ graphs = C.graphs
       /\ last = [op |-> by, err |-> S.err, made |-> [by |-> by, n |-> n], ret |-> None]
       /\ calls = 0

InitGenerated ==
    \E n \in 0..MaxSize :
        \/ Made(identity(EmptyStore, "g", n), "identity", n)
        \/ \E matrix \in Matrices(n) :
              Made(graph_from_adjacency_matrix(EmptyStore, "g", matrix),
                   "graph_from_adjacency_matrix", n)

\* a call that reads g and returns ret or raises err
Query(op, err, ret) ==
    /\ calls = 0
    /\ calls' = 1
    /\ last' = [op |-> op, err |-> err, made |-> last.made, ret |-> ret]
    /\ UNCHANGED <<objs, lists, graphs>>

IsCyclic ==
    LET r == is_cyclic(Store, "g")
    IN IF r = "KeyError" THEN Query("is_cyclic", "KeyError", None)
       ELSE Query("is_cyclic", "none", Some(r))

IsWellFormed ==
    LET r == is_well_formed(Store, "g")
    IN IF r = "KeyError" THEN Query("is_well_formed", "KeyError", None)
       ELSE Query("is_well_formed", "none", Some(r))

NextGenerated ==
    \/ IsCyclic
    \/ IsWellFormed

SpecGenerated == InitGenerated /\ [][NextGenerated]_vars

\* C15: for every n >= 1, identity(n) has inputs == outputs == [0, ..., n-1],
\* every node has one parent and one child, both itself with multiplicity 1,
\* and is_well_formed() returns True on it
C15_IdentityIsWellFormed ==
    (last.op = "is_well_formed" /\ last.made.by = "identity" /\ last.made.n >= 1) =>
        /\ get_input_ids(Store, "g") = [i \in 1..last.made.n |-> i - 1]
        /\ get_output_ids(Store, "g") = [i \in 1..last.made.n |-> i - 1]
        /\ \A k \in Keys(Store, "g") :
              /\ get_node_by_id(Store, "g", k).parents = <<<<k, 1>>>>
              /\ get_node_by_id(Store, "g", k).children = <<<<k, 1>>>>
        /\ last.ret = Some("True")

\* C15 as the code has it: the same lists and self-loops, and
\* is_well_formed() returns False because the input nodes have a parent
C15_IdentityStructure ==
    (last.op = "is_well_formed" /\ last.made.by = "identity" /\ last.made.n >= 1) =>
        /\ get_input_ids(Store, "g") = [i \in 1..last.made.n |-> i - 1]
        /\ get_output_ids(Store, "g") = [i \in 1..last.made.n |-> i - 1]
        /\ Keys(Store, "g") = 0..(last.made.n - 1)
        /\ \A k \in Keys(Store, "g") :
              /\ get_node_by_id(Store, "g", k).parents = <<<<k, 1>>>>
              /\ get_node_by_id(Store, "g", k).children = <<<<k, 1>>>>
        /\ last.err = "none"
        /\ last.ret = Some("False")

C15_Witness ==
    /\ last.op = "is_well_formed"
    /\ last.made = [by |-> "identity", n |-> MaxSize]
    /\ last.ret = Some("False")

\* the ids reachable from the ids in F along child edges, F included
RECURSIVE Descendants(_, _, _)
Descendants(S, g, F) ==
    LET G == F \cup UNION {KeySet(get_node_by_id(S, g, x).children) \cap Keys(S, g) : x \in F}
    IN IF G = F THEN F ELSE Descendants(S, g, G)

\* some node is reached from one of its own children: a directed cycle
HasCycle(S, g) ==
    \E x \in Keys(S, g) :
        x \in Descendants(S, g, KeySet(get_node_by_id(S, g, x).children) \cap Keys(S, g))

\* every edge goes from an id to a larger id, as in a graph made from a
\* matrix whose entries on and below the diagonal are zero
UnderDagConstraint(S, g) ==
    \A x \in Keys(S, g) : \A y \in KeySet(get_node_by_id(S, g, x).children) : x < y

\* C16: on a graph whose adjacency is consistent is_cyclic() returns True
\* exactly when the child edges contain a directed cycle (a self-loop is
\* one); it returns True for identity(n) with n > 0 and False for a graph
\* made from a matrix under the DAG constraint
C16_IsCyclicDecides ==
    (last.op = "is_cyclic" /\ AdjacencyConsistent(Store, "g")) =>
        /\ last.err = "none"
        /\ last.ret = Some(IF HasCycle(Store, "g") THEN "True" ELSE "False")
        /\ (last.made.by = "identity" /\ last.made.n > 0) => last.ret = Some("True")
        /\ (last.made.by = "graph_from_adjacency_matrix" /\ UnderDagConstraint(Store, "g"))
              => last.ret = Some("False")

\* a cycle between nodes 1 and 2, which the first node does not reach, is found
C16_Witness ==
    /\ last.op = "is_cyclic"
    /\ last.ret = Some("True")
    /\ AdjacencyConsistent(Store, "g")
    /\ \A x \in Keys(Store, "g") : ChildMult(Store, "g", x, x) = 0
    /\ get_node_by_id(Store, "g", 0).children = EmptyDict
    /\ ChildMult(Store, "g", 1, 2) > 0
    /\ ChildMult(Store, "g", 2, 1) > 0

(***************************************************************************)
(* OpenDigraph.topological_sort and graph_depth.  A Python set is iterated *)
(* in an order the language leaves open: order is the sequence of all ids  *)
(* in which the sets of one call are iterated.                             *)
(***************************************************************************)
RECURSIVE Iter(_, _)
Iter(set, order) ==
    IF order = <<>> THEN <<>>
    ELSE IF Head(order) \in set THEN <<Head(order)>> \o Iter(set, Tail(order))
    ELSE Iter(set, Tail(order))

\* the loop over the children ch of a node of the level, from position i:
\* a child none of whose recorded parents is in current_set so far joins
\* new_co_leaves
RECURSIVE sort_children(_, _, _, _, _, _)
sort_children(S, g, ch, i, current_set, new_co_leaves) ==
    IF i > Len(ch) THEN [err |-> "none", new_co_leaves |-> new_co_leaves]
    ELSE IF ~Has(S.graphs[g].nodes, ch[i]) THEN [err |-> "KeyError", new_co_leaves |-> new_co_leaves]
    ELSE sort_children(S, g, ch, i + 1, current_set,
                       IF KeySet(get_node_by_id(S, g, ch[i]).parents) \cap current_set = {}
                       THEN new_co_leaves \cup {ch[i]} ELSE new_co_leaves)

\* the loop over co_leaves (as the sequence ns), from position i
RECURSIVE sort_level(_, _, _, _, _, _)
sort_level(S, g, ns, i, current_set, new_co_leaves) ==
    IF i > Len(ns)
    THEN [err |-> "none", current_set |-> current_set, new_co_leaves |-> new_co_leaves]
    ELSE IF ~Has(S.graphs[g].nodes, ns[i])
    THEN [err |-> "KeyError", current_set |-> current_set \cup {ns[i]},
          new_co_leaves |-> new_co_leaves]
    ELSE LET r == sort_children(S, g, KeySeq(get_node_by_id(S, g, ns[i]).children), 1,
                                current_set \cup {ns[i]}, new_co_leaves)
         IN IF r.err # "none"
            THEN [err |-> r.err, current_set |-> current_set \cup {ns[i]},
                  new_co_leaves |-> r.new_co_leaves]
            ELSE sort_level(S, g, ns, i + 1, current_set \cup {ns[i]}, r.new_co_leaves)

\* the while loop
RECURSIVE sort_loop(_, _, _, _, _)
sort_loop(S, g, order, co_leaves, topological_sequence) ==
    IF co_leaves = {} THEN [S EXCEPT !.ret = Some(topological_sequence)]
    ELSE LET r == sort_level(S, g, Iter(co_leaves, order), 1, {}, {})
         IN IF r.err # "none" THEN Raise(S, r.err)
            ELSE IF r.new_co_leaves = {}
                    /\ Cardinality(r.current_set) < Len(get_node_ids(S, g))
            THEN Raise(S, "ValueError")
            ELSE sort_loop(S, g, order, r.new_co_leaves,
                           Append(topological_sequence, r.current_set))

topological_sort(S, g, order) ==
    IF ~Ok(S) THEN S
    ELSE sort_loop(S, g, order, SeqSet(get_input_ids(S, g)), <<>>)

\* len(topological_sort()); the str case of the isinstance test never happens
graph_depth(S, g, order) ==
    LET T == topological_sort(S, g, order)
    IN IF ~Ok(T) THEN T ELSE [T EXCEPT !.ret = Some(Len(T.ret[1]))]

(***************************************************************************)
(* The sorting program: g = graph_from_adjacency_matrix(matrix), then      *)
(* g.add_input_id(i) for some ids and g.add_output_id(o) for some ids, as  *)
(* OpenDigraph.random does with the ids it samples, then one call of       *)
(* topological_sort or graph_depth.                                        *)
(***************************************************************************)
MaxSample == 2    \* most ids sampled as inputs, and as outputs

\* the samples of at most MaxSample ids out of 0 .. n-1, in increasing order
Samples(n) ==
    {s \in SeqsUpTo(0..(n - 1), MaxSample) : \A i \in 1..(Len(s) - 1) : s[i] < s[i + 1]}

RECURSIVE add_input_ids(_, _, _, _)
add_input_ids(S, g, s, i) ==
    IF i > Len(s) THEN S ELSE add_input_ids(add_input_id(S, g, s[i]), g, s, i + 1)

RECURSIVE add_output_ids(_, _, _, _)
add_output_ids(S, g, s, i) ==
    IF i > Len(s) THEN S ELSE add_output_ids(add_output_id(S, g, s[i]), g, s, i + 1)

InitSorted ==
    \E n \in 0..MaxSize :
        \E matrix \in Matrices(n), inputs_list \in Samples(n), outputs_list \in Samples(n) :
            Made(add_output_ids(add_input_ids(
                     graph_from_adjacency_matrix(EmptyStore, "g", matrix),
                     "g", inputs_list, 1), "g", outputs_list, 1),
                 "graph_from_adjacency_matrix", n)

\* the orders in which a set of node ids may be iterated
Orders == {s \in [1..Cardinality(Keys(Store, "g")) -> Keys(Store, "g")] :
              \A i, j \in DOMAIN s : s[i] = s[j] => i = j}

TopologicalSort ==
    \E order \in Orders :
        LET T == topological_sort(Store, "g", order)
        IN Query("topological_sort", T.err, T.ret)

GraphDepth ==
    \E order \in Orders :
        LET T == graph_depth(Store, "g", order)
        IN Query("graph_depth", T.err, T.ret)

NextSorted ==
    \/ TopologicalSort
    \/ GraphDepth

SpecSorted == InitSorted /\ [][NextSorted]_vars

\* the number of edges on the longest directed path from x (acyclic graphs)
RECURSIVE PathLength(_, _, _)
PathLength(S, g, x) ==
    LET ch == KeySet(get_node_by_id(S, g, x).children)
    IN IF ch = {} THEN 0 ELSE 1 + SetMax({PathLength(S, g, y) : y \in ch})

LongestPath(S, g) == SetMax({PathLength(S, g, x) : x \in Keys(S, g)})

\* C17: on an acyclic well-formed graph (with a node) topological_sort()
\* returns, and graph_depth() returns one plus the number of edges on the
\* longest directed path of the graph
C17_DepthIsLongestPath ==
    (/\ Keys(Store, "g") # {}
     /\ FiveInvariants(Store, "g")
     /\ ~HasCycle(Store, "g")) =>
        /\ last.op = "topological_sort" => last.err = "none"
        /\ last.op = "graph_depth" =>
              /\ last.err = "none"
              /\ last.ret = Some(1 + LongestPath(Store, "g"))

\* C18: on a graph with a directed cycle topological_sort() raises the
\* ValueError "Graph is cyclic", and whenever it returns, every node of the
\* graph is in one of the levels returned
C18_SortFailsOnCycle ==
    last.op = "topological_sort" =>
        /\ HasCycle(Store, "g") => last.err = "ValueError"
        /\ last.err = "none" =>
              UNION {last.ret[1][i] : i \in 1..Len(last.ret[1])} = Keys(Store, "g")

(***************************************************************************)
(* OpenDigraph.dijkstra and shortest_path.  direction and tgt are None or  *)
(* Some(x); dist and prev are dicts; an infinite distance is Inf.          *)
(***************************************************************************)
\* min_distance(dist, q): the first node of q with the smallest distance
RECURSIVE min_distance_from(_, _, _, _, _)
min_distance_from(dist, q, i, min_dist, min_node) ==
    IF i > Len(q) THEN min_node
    ELSE IF Get(dist, q[i]) < min_dist
    THEN min_distance_from(dist, q, i + 1, Get(dist, q[i]), Some(q[i]))
    ELSE min_distance_from(dist, q, i + 1, min_dist, min_node)

min_distance(dist, q) == min_distance_from(dist, q, 1, Inf, None)

\* for p in parents: neighbors[p] = parents[p], neighbors being the children
\* dict of the node itself
RECURSIVE with_parents(_, _, _)
with_parents(children, parents, i) ==
    IF i > Len(parents) THEN children
    ELSE with_parents(Put(children, parents[i][1], parents[i][2]), parents, i + 1)

\* the loop over the neighbours vs of u, from position i
RECURSIVE relax(_, _, _, _, _, _)
relax(vs, i, u, q, dist, prev) ==
    IF i > Len(vs) THEN [q |-> q, dist |-> dist, prev |-> prev]
    ELSE LET v == vs[i]
             q1 == IF Has(dist, v) THEN q ELSE Append(q, v)
             dist1 == IF Has(dist, v) THEN dist ELSE Put(dist, v, Inf)
         IN IF Get(dist1, v) > Get(dist, u) + 1
            THEN relax(vs, i + 1, u, q1, Put(dist1, v, Get(dist, u) + 1), Put(prev, v, u))
            ELSE relax(vs, i + 1, u, q1, dist1, prev)

\* the while loop of dijkstra
RECURSIVE dijkstra_loop(_, _, _, _, _, _, _)
dijkstra_loop(S, g, q, dist, prev, direction, tgt) ==
    IF Len(q) = 0 THEN [S EXCEPT !.ret = Some([dist |-> dist, prev |-> prev])]
    ELSE LET u == min_distance(dist, q)[1]
         IN IF Some(u) = tgt THEN [S EXCEPT !.ret = Some([dist |-> dist, prev |-> prev])]
            ELSE IF direction \notin {None, Some(-1), Some(1)} THEN Raise(S, "ValueError")
            ELSE IF ~Has(S.graphs[g].nodes, u) THEN Raise(S, "KeyError")
            ELSE LET node == get_node_by_id(S, g, u)
                     S1 == IF direction = None
                           THEN SetNode(S, g, u,
                                        [node EXCEPT !.children =
                                            with_parents(node.children, node.parents, 1)])
                           ELSE S
                     neighbors == IF direction = Some(-1) THEN node.parents
                                  ELSE get_node_by_id(S1, g, u).children
                     r == relax(KeySeq(neighbors), 1, u, q, dist, prev)
                 IN dijkstra_loop(S1, g, Without(r.q, u), r.dist, r.prev, direction, tgt)

dijkstra(S, g, src, direction, tgt) ==
    IF ~Ok(S) THEN S
    ELSE dijkstra_loop(S, g, <<src>>, Put(EmptyDict, src, 0), EmptyDict, direction, tgt)

\* the while loop of shortest_path: nodes grows at the front until it starts with u
RECURSIVE walk_back(_, _, _, _)
walk_back(S, prev, u, nodes) ==
    IF nodes[1] = u THEN [S EXCEPT !.ret = Some(nodes)]
    ELSE IF ~Has(prev, nodes[1]) THEN Raise(S, "KeyError")
    ELSE walk_back(S, prev, u, <<Get(prev, nodes[1])>> \o nodes)

shortest_path(S, g, u, v) ==
    LET D == dijkstra(S, g, u, None, Some(v))
    IN IF ~Ok(D) THEN D ELSE walk_back(D, D.ret[1].prev, u, <<v>>)

(***************************************************************************)
(* The path program: g = graph_from_adjacency_matrix(matrix) for a matrix  *)
(* under the DAG constraint, at most one g.merge_nodes(a, b), then calls   *)
(* of g.dijkstra(u, None, v) and g.shortest_path(u, v).  Here last also    *)
(* records the arguments u and v of the call.                              *)
(***************************************************************************)
MaxPathNodes == 4     \* most rows of a matrix under the DAG constraint
MaxPathEdges == 3     \* most non-zero entries of such a matrix
MaxPathCalls == 2     \* most calls of dijkstra and shortest_path in a run

\* the matrices of size n whose entries on and below the diagonal are zero
DagMatrices(n) ==
    UNION {{[r \in 1..n |-> [c \in 1..n |-> IF <<r, c>> \in E THEN w[<<r, c>>] ELSE 0]] :
               w \in [E -> 1..MaxEntry]} :
           E \in {F \in SUBSET {rc \in Cells(n) : rc[1] < rc[2]} :
                     Cardinality(F) <= MaxPathEdges}}

InitPaths ==
    \E n \in 0..MaxPathNodes : \E matrix \in DagMatrices(n) :
        LET S == Collect(graph_from_adjacency_matrix(EmptyStore, "g", matrix))
        IN /\ objs = S.objs
           /\ lists = S.lists
           /\ graphs = S.graphs
           /\ last = [op |-> "graph_from_adjacency_matrix", err |-> "none",
                      args |-> <<>>, ret |-> None]
           /\ calls = 0

\* a call on g that leaves the store S behind
Called(S, op, args) ==
    LET C == Collect(S)
    IN /\ objs' = C.objs
       /\ lists' = C.lists
       /\ graphs' = C.graphs
       /\ last' = [op |-> op, err |-> S.err, args |-> args, ret |-> S.ret]

MergePath ==
    /\ last.op = "graph_from_adjacency_matrix"
    /\ calls' = calls
    /\ \E a \in Keys(Store, "g"), b \in Keys(Store, "g") :
          Called(merge_nodes(Store, "g", a, b, ""), "merge_nodes", <<a, b>>)

Dijkstra ==
    /\ calls < MaxPathCalls
    /\ calls' = calls + 1
    /\ \E u \in Keys(Store, "g"), v \in Keys(Store, "g") :
          Called(dijkstra(Store, "g", u, None, Some(v)), "dijkstra", <<u, v>>)

ShortestPath ==
    /\ calls < MaxPathCalls
    /\ calls' = calls + 1
    /\ \E u \in Keys(Store, "g"), v \in Keys(Store, "g") :
          Called(shortest_path(Store, "g", u, v), "shortest_path", <<u, v>>)

NextPaths ==
    \/ MergePath
    \/ Dijkstra
    \/ ShortestPath

SpecPaths == InitPaths /\ [][NextPaths]_vars

\* a and b are nodes and one of them names the other as parent or child
Adjacent(S, g, a, b) ==
    /\ a \in Keys(S, g)
    /\ b \in Keys(S, g)
    /\ \/ Has(get_node_by_id(S, g, a).children, b)
       \/ Has(get_node_by_id(S, g, a).parents, b)
       \/ Has(get_node_by_id(S, g, b).children, a)
       \/ Has(get_node_by_id(S, g, b).parents, a)

\* the nodes within k edges of the nodes in F, edge direction ignored
RECURSIVE Ball(_, _, _, _)
Ball(S, g, F, k) ==
    IF k = 0 THEN F
    ELSE Ball(S, g, F \cup {y \in Keys(S, g) : \E x \in F : Adjacent(S, g, x, y)}, k - 1)

Joined(S, g, u, v) == v \in Ball(S, g, {u}, Cardinality(Keys(S, g)))

\* the least number of edges of a path from u to v, edge direction ignored
Distance(S, g, u, v) ==
    CHOOSE k \in 0..Cardinality(Keys(S, g)) :
        /\ v \in Ball(S, g, {u}, k)
        /\ \A j \in 0..(k - 1) : v \notin Ball(S, g, {u}, j)

\* C19: when u and v are joined by a path that ignores edge direction,
\* shortest_path(u, v) returns a list from u to v whose consecutive nodes
\* are adjacent and whose number of edges is the least possible, which is
\* also the distance dijkstra(u, None, v) gives for v; shortest_path(u, u)
\* is [u]; on the chain 0->1->2->3 shortest_path(0, 3) is [0, 1, 2, 3] and
\* the distance of 3 is 3
C19_ShortestPathIsShortest ==
    [][(last'.op \in {"shortest_path", "dijkstra"}
        /\ Joined(Store, "g", last'.args[1], last'.args[2])) =>
          LET u == last'.args[1]
              v == last'.args[2]
              chain == /\ Keys(Store, "g") = 0..3
                       /\ \A x, y \in 0..3 :
                             Adjacent(Store, "g", x, y) <=> (x = y + 1 \/ y = x + 1)
          IN /\ last'.err = "none"
             /\ last'.op = "dijkstra" =>
                   /\ Get(last'.ret[1].dist, v) = Distance(Store, "g", u, v)
                   /\ (chain /\ u = 0 /\ v = 3) => Get(last'.ret[1].dist, v) = 3
             /\ last'.op = "shortest_path" =>
                   LET nodes == last'.ret[1]
                   IN /\ nodes[1] = u
                      /\ nodes[Len(nodes)] = v
                      /\ \A i \in 1..(Len(nodes) - 1) :
                            Adjacent(Store, "g", nodes[i], nodes[i + 1])
                      /\ Len(nodes) - 1 = Distance(Store, "g", u, v)
                      /\ u = v => nodes = <<u>>
                      /\ (chain /\ u = 0 /\ v = 3) => nodes = <<0, 1, 2, 3>>]_vars

(***************************************************************************)
(* BoolCirc: the circuit is the graph self.g.  The labels '∼' (U+223C) and *)
(* 'ˆ' (U+02C6) the rules test are not the ASCII '~' and '^' the           *)
(* well-formedness check allows; they are written here by their code point.*)
(***************************************************************************)
TildeOperator == "U+223C"
ModifierCircumflex == "U+02C6"

\* BoolCirc.is_well_formed: "True", "False", or "KeyError" from the graph's check
BoolCirc_is_well_formed(S, g) ==
    LET allowed_primitives == {"0", "1", "~", "|", "&", "^"}
    IN IF \E i \in 1..Len(get_nodes(S, g)) :
             \/ get_nodes(S, g)[i].label = "" /\ Len(get_nodes(S, g)[i].parents) # 1
             \/ get_nodes(S, g)[i].label # "" /\ get_nodes(S, g)[i].label \notin allowed_primitives
       THEN "False"
       ELSE IF is_well_formed(S, g) # "True" THEN is_well_formed(S, g)
       ELSE IF is_cyclic(S, g) = "True" THEN "False"
       ELSE IF is_cyclic(S, g) = "False" THEN "True"
       ELSE is_cyclic(S, g)

\* BoolCirc(g)
BoolCirc(S, g) ==
    IF ~Ok(S) THEN S
    ELSE IF BoolCirc_is_well_formed(S, g) = "KeyError" THEN Raise(S, "KeyError")
    ELSE IF BoolCirc_is_well_formed(S, g) = "False" THEN Raise(S, "ValueError")
    ELSE S

\* [self.g.nodes[n].get_label() for n in node.get_parents()]
parent_labels(S, g, node) ==
    [i \in 1..Len(node.parents) |-> get_node_by_id(S, g, node.parents[i][1]).label]

\* inputs.remove(x): the first x is taken out
remove_first(inputs, x) ==
    LET k == CHOOSE i \in 1..Len(inputs) : inputs[i] = x /\ \A j \in 1..(i - 1) : inputs[j] # x
    IN SubSeq(inputs, 1, k - 1) \o SubSeq(inputs, k + 1, Len(inputs))

\* node.get_parents()[0]: the value the parents dict holds under key 0
parents_at_0(S, node) ==
    IF Has(node.parents, 0) THEN [S EXCEPT !.ret = Some(Get(node.parents, 0))]
    ELSE Raise(S, "KeyError")

\* for pred in node.get_parents(): self.g.remove_edge(pred, node_id), over the
\* keys preds the dict had, from position i; a dict whose size changed under
\* the loop ends it with RuntimeError
RECURSIVE remove_parent_edges(_, _, _, _, _)
remove_parent_edges(S, g, node_id, preds, i) ==
    IF ~Ok(S) \/ i > Len(preds) THEN S
    ELSE LET S1 == remove_edge(S, g, preds[i], node_id)
         IN IF ~Ok(S1) THEN S1
            ELSE IF Len(get_node_by_id(S1, g, node_id).parents) # Len(preds)
            THEN Raise(S1, "RuntimeError")
            ELSE remove_parent_edges(S1, g, node_id, preds, i + 1)

\* one round of the loop of rule_and (gate "&", absorbing "0", neutral "1")
\* and of rule_or (gate "|", absorbing "1", neutral "0")
rule_gate_node(S, g, node_id, gate, absorbing, neutral) ==
    IF ~Ok(S) THEN S
    ELSE IF ~Has(S.graphs[g].nodes, node_id) THEN Raise(S, "KeyError")
    ELSE LET node == get_node_by_id(S, g, node_id)
         IN IF node.label # gate THEN S
            ELSE IF ~(KeySet(node.parents) \subseteq Keys(S, g)) THEN Raise(S, "KeyError")
            ELSE LET inputs == parent_labels(S, g, node)
                     S1 == IF InSeq(absorbing, inputs) THEN set_label(S, g, node_id, absorbing)
                           ELSE IF InSeq(neutral, inputs)
                           THEN IF remove_first(inputs, neutral) = <<>> THEN Raise(S, "IndexError")
                                ELSE set_label(S, g, node_id, remove_first(inputs, neutral)[1])
                           ELSE S
                 IN remove_parent_edges(S1, g, node_id, KeySeq(node.parents), 1)

RECURSIVE rule_gate(_, _, _, _, _, _, _)
rule_gate(S, g, node_ids, i, gate, absorbing, neutral) ==
    IF i > Len(node_ids) THEN S
    ELSE rule_gate(rule_gate_node(S, g, node_ids[i], gate, absorbing, neutral),
                   g, node_ids, i + 1, gate, absorbing, neutral)

rule_and(S, g) == rule_gate(S, g, get_node_ids(S, g), 1, "&", "0", "1")
rule_or(S, g) == rule_gate(S, g, get_node_ids(S, g), 1, "|", "1", "0")

\* one round of the loop of rule_xor
rule_xor_node(S, g, node_id) ==
    IF ~Ok(S) THEN S
    ELSE IF ~Has(S.graphs[g].nodes, node_id) THEN Raise(S, "KeyError")
    ELSE LET node == get_node_by_id(S, g, node_id)
         IN IF node.label # ModifierCircumflex THEN S
            ELSE IF ~(KeySet(node.parents) \subseteq Keys(S, g)) THEN Raise(S, "KeyError")
            ELSE LET inputs == parent_labels(S, g, node)
                     S1 == IF InSeq("0", inputs)
                           THEN IF remove_first(inputs, "0") = <<>> THEN Raise(S, "IndexError")
                                ELSE set_label(S, g, node_id, remove_first(inputs, "0")[1])
                           ELSE IF InSeq("1", inputs)
                           THEN IF remove_first(inputs, "1") = <<>> THEN Raise(S, "IndexError")
                                ELSE set_label(S, g, node_id,
                                               TildeOperator \o remove_first(inputs, "1")[1])
                           ELSE S
                 IN remove_parent_edges(S1, g, node_id, KeySeq(node.parents), 1)

RECURSIVE rule_xor_from(_, _, _, _)
rule_xor_from(S, g, node_ids, i) ==
    IF i > Len(node_ids) THEN S
    ELSE rule_xor_from(rule_xor_node(S, g, node_ids[i]), g, node_ids, i + 1)

rule_xor(S, g) == rule_xor_from(S, g, get_node_ids(S, g), 1)

\* one round of the loop of rule_not (kind "not"), rule_copy (kind "copy")
\* and rule_erase (kind "erase"): each reads pred = node.get_parents()[0]
rule_pred_node(S, g, node_id, kind) ==
    IF ~Ok(S) THEN S
    ELSE IF ~Has(S.graphs[g].nodes, node_id) THEN Raise(S, "KeyError")
    ELSE LET node == get_node_by_id(S, g, node_id)
             applies == IF kind = "not" THEN node.label = TildeOperator
                        ELSE IF kind = "copy"
                        THEN Len(node.parents) = 1 /\ Len(node.children) = 0
                        ELSE Len(node.parents) = 1 /\ Len(node.children) = 1
         IN IF ~applies THEN S
            ELSE IF ~Ok(parents_at_0(S, node)) THEN parents_at_0(S, node)
            ELSE LET pred == parents_at_0(S, node).ret[1]
                 IN IF kind = "erase"
                    THEN remove_id(add_edge(S, g, pred, pred), g, node_id)
                    ELSE IF ~Has(S.graphs[g].nodes, pred) THEN Raise(S, "KeyError")
                    ELSE LET pred_label == get_node_by_id(S, g, pred).label
                             S1 == IF kind = "copy" THEN set_label(S, g, node_id, pred_label)
                                   ELSE IF pred_label = "0" THEN set_label(S, g, node_id, "1")
                                   ELSE IF pred_label = "1" THEN set_label(S, g, node_id, "0")
                                   ELSE S
                         IN remove_edge(S1, g, pred, node_id)

RECURSIVE rule_pred(_, _, _, _, _)
rule_pred(S, g, node_ids, i, kind) ==
    IF i > Len(node_ids) THEN S
    ELSE rule_pred(rule_pred_node(S, g, node_ids[i], kind), g, node_ids, i + 1, kind)

rule_not(S, g) == rule_pred(S, g, get_node_ids(S, g), 1, "not")
rule_copy(S, g) == rule_pred(S, g, get_node_ids(S, g), 1, "copy")
rule_erase(S, g) == rule_pred(S, g, get_node_ids(S, g), 1, "erase")

\* the for loop of one round of evaluate's while loop, from position i of the
\* ids node_ids listed when the round began: the store left and whether a
\* rule was applied
RECURSIVE evaluate_round(_, _, _, _, _, _)
evaluate_round(S, g, node_ids, i, output_nodes, transformed) ==
    IF ~Ok(S) \/ i > Len(node_ids) THEN [S |-> S, transformed |-> transformed]
    ELSE IF ~Has(S.graphs[g].nodes, node_ids[i])
    THEN [S |-> Raise(S, "KeyError"), transformed |-> transformed]
    ELSE IF node_ids[i] \in output_nodes
    THEN evaluate_round(S, g, node_ids, i + 1, output_nodes, transformed)
    ELSE LET node == get_node_by_id(S, g, node_ids[i])
         IN IF node.label = TildeOperator
            THEN evaluate_round(rule_not(S, g), g, node_ids, i + 1, output_nodes, TRUE)
            ELSE IF node.label = "&"
            THEN evaluate_round(rule_and(S, g), g, node_ids, i + 1, output_nodes, TRUE)
            ELSE IF node.label = "|"
            THEN evaluate_round(rule_or(S, g), g, node_ids, i + 1, output_nodes, TRUE)
            ELSE IF node.label = ModifierCircumflex
            THEN evaluate_round(rule_xor(S, g), g, node_ids, i + 1, output_nodes, TRUE)
            ELSE IF Len(node.parents) = 1 /\ Len(node.children) = 0
            THEN evaluate_round(rule_copy(S, g), g, node_ids, i + 1, output_nodes, TRUE)
            ELSE IF Len(node.parents) = 1 /\ Len(node.children) = 1
            THEN evaluate_round(rule_erase(S, g), g, node_ids, i + 1, output_nodes, TRUE)
            ELSE evaluate_round(S, g, node_ids, i + 1, output_nodes, transformed)

\* the while loop of evaluate; a round that ends in a store an earlier round
\* ended in repeats for ever, and the call does not return ("diverges")
RECURSIVE evaluate_while(_, _, _, _)
evaluate_while(S, g, output_nodes, seen) ==
    LET r == evaluate_round(S, g, get_node_ids(S, g), 1, output_nodes, FALSE)
    IN IF ~Ok(r.S) THEN r.S
       ELSE IF ~r.transformed THEN [r.S EXCEPT !.ret = None]
       ELSE IF r.S \in seen THEN Raise(r.S, "diverges")
       ELSE evaluate_while(r.S, g, output_nodes, seen \cup {r.S})

\* BoolCirc.evaluate on the circuit whose graph is g
evaluate(S, g) ==
    IF ~Ok(S) THEN S
    ELSE evaluate_while(S, g,
                        {node_id \in Keys(S, g) : Len(get_node_by_id(S, g, node_id).children) = 0},
                        {})

(***************************************************************************)
(* The circuit program: a graph of at most MaxGates nodes labelled with    *)
(* constants and "&" and at most MaxWires edges, accepted by BoolCirc(g),  *)
(* on which evaluate or rule_and is called once.                           *)
(***************************************************************************)
MaxGates == 3
MaxWires == 2
GateLabels == {"0", "1", "&"}

\* g.add_node(label) for each label in turn
RECURSIVE add_gates(_, _, _)
add_gates(S, g, labels) ==
    IF labels = <<>> THEN S
    ELSE add_node(add_gates(S, g, SubSeq(labels, 1, Len(labels) - 1)), g,
                  labels[Len(labels)], <<>>, <<>>)

\* g.add_edge(src, tgt) for each pair in turn
RECURSIVE add_wires(_, _, _)
add_wires(S, g, wires) ==
    IF wires = <<>> THEN S
    ELSE add_edge(add_wires(S, g, SubSeq(wires, 1, Len(wires) - 1)), g,
                  wires[Len(wires)][1], wires[Len(wires)][2])

\* the pairs of distinct ids below n, row by row
Wires(n) == SelectSeq([k \in 1..(n * n) |-> <<(k - 1) \div n, (k - 1) % n>>],
                      LAMBDA w : w[1] # w[2])

\* the circuits with labels from alphabet that BoolCirc(g) accepts
Circuits(alphabet) ==
    \E n \in 0..MaxGates :
        \E labels \in [1..n -> alphabet] :
            \E E \in {F \in SUBSET (1..Len(Wires(n))) : Cardinality(F) <= MaxWires} :
                LET wires == [i \in 1..Cardinality(E) |->
                                 Wires(n)[CHOOSE k \in E : Cardinality({j \in E : j < k}) = i - 1]]
                    S == BoolCirc(add_wires(add_gates(empty(EmptyStore, "g"), "g", labels),
                                            "g", wires), "g")
                    C == Collect(S)
                IN /\ Ok(S)
                   /\ objs = C.objs
                   /\ lists = C.lists
                   /\ graphs = C.graphs
                   /\ last = [op |-> "BoolCirc", err |-> "none", args |-> <<>>, ret |-> None]
                   /\ calls = 0

InitCircuit == Circuits(GateLabels)

Evaluate ==
    /\ calls = 0
    /\ calls' = 1
    /\ Called(evaluate(Store, "g"), "evaluate", <<>>)

RuleAnd ==
    /\ calls = 0
    /\ calls' = 1
    /\ Called(rule_and(Store, "g"), "rule_and", <<>>)

NextCircuit == Evaluate \/ RuleAnd

SpecCircuit == InitCircuit /\ [][NextCircuit]_vars

\* the gates the claim is about: labelled "&", without children, with at
\* least one parent, every parent labelled with a constant
ConstantAnd(S, g, node_id) ==
    LET node == get_node_by_id(S, g, node_id)
    IN /\ node.label = "&"
       /\ node.children = <<>>
       /\ node.parents # <<>>
       /\ \A p \in KeySet(node.parents) : get_node_by_id(S, g, p).label \in {"0", "1"}

\* the conjunction of the constants on the parents of the gate
Conjunction(S, g, node_id) ==
    IF \E p \in KeySet(get_node_by_id(S, g, node_id).parents) :
           get_node_by_id(S, g, p).label = "0"
    THEN "0" ELSE "1"

\* C20: evaluate() on a circuit returns, and every "&" node that had no
\* children and only constant parents is then labelled with the conjunction
\* of the constants of those parents
C20_EvaluateAndGate ==
    [][last'.op = "evaluate" =>
          \A node_id \in Keys(Store, "g") :
              ConstantAnd(Store, "g", node_id) =>
                  /\ last'.err = "none"
                  /\ Has(graphs'["g"].nodes, node_id)
                  /\ objs'[Get(graphs'["g"].nodes, node_id)].label
                        = Conjunction(Store, "g", node_id)]_vars

\* C21: evaluate() on a circuit accepted by BoolCirc terminates: the call
\* returns or raises, it never repeats a round for ever
C21_EvaluateTerminates ==
    last.op = "evaluate" => last.err # "diverges"

(***************************************************************************)
(* BoolCirc.parse_parentheses (the second definition of that name; the     *)
(* first lies inside a string literal).  It works on the circuit's own     *)
(* inherited node map, named by self.  A formula is the sequence of its    *)
(* characters.                                                             *)
(***************************************************************************)
Letters == {"a", "b"}

\* x + k for a float x that may be -inf
FloatPlus(x, k) == IF x = -Inf THEN x ELSE x + k

\* the string the characters of s2 spell
RECURSIVE Spell(_)
Spell(s2) == IF s2 = <<>> THEN "" ELSE Spell(SubSeq(s2, 1, Len(s2) - 1)) \o s2[Len(s2)]

\* s2.isalpha()
isalpha(s2) == s2 # <<>> /\ \A i \in 1..Len(s2) : s2[i] \in Letters

\* self.nodes[node_id].label += s2
append_label(S, self, node_id, s2) ==
    IF ~Ok(S) THEN S
    ELSE IF ~Has(S.graphs[self].nodes, node_id) THEN Raise(S, "KeyError")
    ELSE SetNode(S, self, node_id,
                 [get_node_by_id(S, self, node_id) EXCEPT !.label = @ \o Spell(s2)])

\* list(self.nodes[node_id].parents)[0], left in ret
first_parent(S, self, node_id) ==
    IF ~Ok(S) THEN S
    ELSE IF ~Has(S.graphs[self].nodes, node_id) THEN Raise(S, "KeyError")
    ELSE IF get_node_by_id(S, self, node_id).parents = <<>> THEN Raise(S, "IndexError")
    ELSE [S EXCEPT !.ret = Some(get_node_by_id(S, self, node_id).parents[1][1])]

\* one round of the loop over the characters: p holds the store S and the
\* locals current_node_id, parent_node_id, s2 and variables
parse_char(p, self, char) ==
    IF ~Ok(p.S) THEN p
    ELSE IF char = "("
    THEN LET S1 == append_label(p.S, self, p.current_node_id, p.s2)
             parent_node_id == FloatPlus(max_id(S1, self), 1)
             S2 == NewNodeAt(S1, self, parent_node_id)
             S3 == SetNode(S2, self, parent_node_id,
                           add_child_id(get_node_by_id(S2, self, parent_node_id),
                                        p.current_node_id))
             S4 == SetNode(S3, self, p.current_node_id,
                           add_parent_id(get_node_by_id(S3, self, p.current_node_id),
                                         parent_node_id))
         IN IF ~Ok(S1) THEN [p EXCEPT !.S = S1]
            ELSE [p EXCEPT !.S = S4, !.parent_node_id = parent_node_id,
                           !.current_node_id = parent_node_id, !.s2 = <<>>]
    ELSE IF char = ")"
    THEN LET S1 == first_parent(append_label(p.S, self, p.current_node_id, p.s2),
                                self, p.current_node_id)
         IN IF ~Ok(S1) THEN [p EXCEPT !.S = S1]
            ELSE [p EXCEPT !.S = S1, !.current_node_id = S1.ret[1], !.s2 = <<>>]
    ELSE IF char \in Letters
    THEN [p EXCEPT !.variables = IF InSeq(char, @) THEN @ ELSE Append(@, char),
                   !.s2 = Append(@, char)]
    ELSE IF char = " "
    THEN IF isalpha(p.s2)
         THEN LET S1 == first_parent(merge_nodes(p.S, self, p.parent_node_id,
                                                 p.current_node_id, ""),
                                     self, p.parent_node_id)
              IN IF ~Ok(S1) THEN [p EXCEPT !.S = S1]
                 ELSE [p EXCEPT !.S = S1, !.current_node_id = S1.ret[1], !.s2 = <<>>]
         ELSE [p EXCEPT !.s2 = Append(@, char)]
    ELSE p

RECURSIVE parse_chars(_, _, _, _)
parse_chars(p, self, s, i) ==
    IF i > Len(s) THEN p ELSE parse_chars(parse_char(p, self, s[i]), self, s, i + 1)

\* self.parse_parentheses(s); the list variables is left in ret
parse_parentheses(S, self, s) ==
    IF ~Ok(S) THEN S
    ELSE LET p == parse_chars([S |-> S,
                               current_node_id |-> FloatPlus(max_id(S, self), 1),
                               parent_node_id |-> FloatPlus(max_id(S, self), 2),
                               s2 |-> <<>>, variables |-> <<>>], self, s, 1)
             S1 == append_label(p.S, self, p.current_node_id, p.s2)
         IN IF ~Ok(S1) THEN S1 ELSE [S1 EXCEPT !.ret = Some(p.variables)]

(***************************************************************************)
(* The parsing program: a circuit made by BoolCirc(), given at most MaxOwn *)
(* nodes of its own by the inherited add_node and add_edge, on which       *)
(* parse_parentheses is called with a formula of at most MaxFormula        *)
(* characters.                                                             *)
(***************************************************************************)
MaxOwn == 2
MaxFormula == 3
Chars == Letters \cup {"(", ")", " "}
Formulas == UNION {[1..n -> Chars] : n \in 0..MaxFormula}

InitParse ==
    \E n \in 0..MaxOwn, wired \in BOOLEAN :
        LET S0 == add_nodes(empty(EmptyStore, "bc"), "bc", n)
            S == IF wired THEN add_edge(S0, "bc", 0, n - 1) ELSE S0
        IN /\ wired => n > 0
           /\ objs = S.objs
           /\ lists = S.lists
           /\ graphs = S.graphs
           /\ last = [op |-> "BoolCirc", err |-> "none", args |-> <<>>, ret |-> None]
           /\ calls = 0

ParseParentheses ==
    /\ calls = 0
    /\ calls' = 1
    /\ \E s \in Formulas : Called(parse_parentheses(Store, "bc", s), "parse_parentheses", s)

NextParse == ParseParentheses

SpecParse == InitParse /\ [][NextParse]_vars

\* the parentheses of s are balanced
RECURSIVE Depth(_, _)
Depth(s, i) == IF i = 0 THEN 0
               ELSE Depth(s, i - 1) + (IF s[i] = "(" THEN 1 ELSE IF s[i] = ")" THEN -1 ELSE 0)
Balanced(s) == Depth(s, Len(s)) = 0 /\ \A i \in 1..Len(s) : Depth(s, i) >= 0

\* the letters of s, each once, in order of first occurrence
FirstOccurrences(s) ==
    LET firsts == {i \in 1..Len(s) : s[i] \in Letters /\ \A j \in 1..(i - 1) : s[j] # s[i]}
    IN [k \in 1..Cardinality(firsts) |->
           s[CHOOSE i \in firsts : Cardinality({j \in firsts : j < i}) = k - 1]]

\* C22: parse_parentheses(s) on a fresh circuit, for s of letters, spaces and
\* balanced parentheses, returns normally, and the variable list holds each
\* letter of s once in order of first occurrence
C22_ParseReturnsVariables ==
    [][(last'.op = "parse_parentheses" /\ Keys(Store, "bc") = {} /\ Balanced(last'.args)) =>
           /\ last'.err = "none"
           /\ last'.ret = Some(FirstOccurrences(last'.args))]_vars

\* C23: after parse_parentheses on a formula in which a variable occurs more
\* than once the call has returned and exactly one node is bound to each
\* variable name
C23_RepeatedVariableShared ==
    [][(/\ last'.op = "parse_parentheses"
        /\ \E i \in 1..Len(last'.args), j \in 1..Len(last'.args) :
              i < j /\ last'.args[i] \in Letters /\ last'.args[i] = last'.args[j]) =>
           /\ last'.err = "none"
           /\ \A x \in {last'.args[i] : i \in 1..Len(last'.args)} \cap Letters :
                 Cardinality({r \in DOMAIN objs' : objs'[r].label = x}) = 1]_vars

(***************************************************************************)
(* The program whose calls may fail: the calls of Spec on the graph g,     *)
(* set_inputs and set_outputs on g, g.icompose(g), and r.compose(g, g) on  *)
(* a second graph r.                                                       *)
(***************************************************************************)
InitFails ==
    LET S == empty(empty(EmptyStore, "g"), "r")
    IN /\ objs = S.objs
       /\ lists = S.lists
       /\ graphs = S.graphs
       /\ last = [op |-> "empty", err |-> "none"]
       /\ calls = 0

SetInputs(g) ==
    \E new_inputs \in SeqsUpTo(Ids, MaxArgs) :
        Commit(set_inputs(Store, g, new_inputs), "set_inputs")

SetOutputs(g) ==
    \E new_outputs \in SeqsUpTo(Ids, MaxArgs) :
        Commit(set_outputs(Store, g, new_outputs), "set_outputs")

ICompose_g == Commit(icompose(Store, "g", "g", "f_copy"), "icompose")

Compose_r == Commit(compose(Store, "r", "g", "g", "f2_copy"), "compose")

MaxFailCalls == 4

NextFails ==
    \/ calls < MaxFailCalls /\ Next
    \/ calls < MaxFailCalls /\ SetInputs("g")
    \/ calls < MaxFailCalls /\ SetOutputs("g")
    \/ calls < MaxFailCalls /\ ICompose_g
    \/ calls < MaxFailCalls /\ Compose_r

SpecFails == InitFails /\ [][NextFails]_vars

\* the calls the claim names
FailingOps == {"add_edge", "remove_edge", "remove_parallel_edges", "add_node",
               "add_input_node", "add_output_node", "merge_nodes",
               "set_inputs", "set_outputs", "icompose", "compose"}

\* C24: a call of one of these operations that raises ValueError (an absent
\* id named, a taken id named, a mismatched arity) leaves the node maps, every
\* node's label, parents and children, the inputs and the outputs as they
\* were before the call
C24_FailedCallChangesNothing ==
    [][(last'.err = "ValueError" /\ last'.op \in FailingOps) =>
           (objs' = objs /\ lists' = lists /\ graphs' = graphs)]_vars

\* add_input_node failed on a graph that has an edge, an input and an output
C24_Witness ==
    /\ last.op = "add_input_node"
    /\ last.err = "ValueError"
    /\ get_input_ids(Store, "g") # <<>>
    /\ get_output_ids(Store, "g") # <<>>
    /\ \E k \in Keys(Store, "g") : get_node_by_id(Store, "g", k).children # <<>>

\* C25: in a level sequence that topological_sort returns the levels are
\* pairwise disjoint and no level holds two nodes joined by a direct edge
C25_LevelsSeparateNeighbours ==
    (last.op = "topological_sort" /\ last.err = "none") =>
        LET levels == last.ret[1]
        IN /\ \A i, j \in 1..Len(levels) : i # j => levels[i] \cap levels[j] = {}
           /\ \A i \in 1..Len(levels) : \A u, v \in levels[i] :
                 u # v => ~Has(get_node_by_id(Store, "g", u).children, v)

(***************************************************************************)
(* OpenDigraph.longest_path and reconstruct_path.  dist and prev are       *)
(* dicts; a value of prev is None or Some(id); -inf is -Inf.  The nested   *)
(* loops over the levels and over each level visit the ids in the order of *)
(* the sequence flat.                                                      *)
(***************************************************************************)
\* the ids of the levels in the order the loops meet them
RECURSIVE Flatten(_, _)
Flatten(levels, order) ==
    IF levels = <<>> THEN <<>>
    ELSE Iter(Head(levels), order) \o Flatten(Tail(levels), order)

\* {node_id: value for node_set in topological_sort for node_id in node_set}
RECURSIVE dict_of(_, _, _)
dict_of(flat, i, value) ==
    IF i = 0 THEN EmptyDict ELSE Put(dict_of(flat, i - 1, value), flat[i], value)

\* reconstruct_path(prev, v) from the node current on, path being built
RECURSIVE reconstruct_from(_, _, _)
reconstruct_from(prev, current, path) ==
    IF current = None THEN [err |-> "none", path |-> path]
    ELSE IF ~Has(prev, current[1]) THEN [err |-> "KeyError", path |-> <<current[1]>> \o path]
    ELSE reconstruct_from(prev, Get(prev, current[1]), <<current[1]>> \o path)

reconstruct_path(prev, v) == reconstruct_from(prev, Some(v), <<>>)

\* the loop over the parents ps of node_id, from position i
RECURSIVE relax_parents(_, _, _, _)
relax_parents(t, node_id, ps, i) ==
    IF i > Len(ps) \/ t.err # "none" THEN t
    ELSE IF ~Has(t.dist, ps[i]) \/ ~Has(t.dist, node_id) THEN [t EXCEPT !.err = "KeyError"]
    ELSE IF FloatPlus(Get(t.dist, ps[i]), 1) > Get(t.dist, node_id)
    THEN relax_parents([t EXCEPT !.dist = Put(@, node_id, FloatPlus(Get(t.dist, ps[i]), 1)),
                                 !.prev = Put(@, node_id, Some(ps[i]))],
                       node_id, ps, i + 1)
    ELSE relax_parents(t, node_id, ps, i + 1)

\* the loops over the levels, from position i of flat
RECURSIVE longest_path_from(_, _, _, _, _, _)
longest_path_from(S, g, v, flat, i, t) ==
    IF i > Len(flat) THEN [S EXCEPT !.ret = None]
    ELSE IF flat[i] = v
    THEN IF ~Has(t.dist, v) THEN Raise(S, "KeyError")
         ELSE IF reconstruct_path(t.prev, v).err # "none"
         THEN Raise(S, reconstruct_path(t.prev, v).err)
         ELSE [S EXCEPT !.ret = Some(<<Get(t.dist, v), reconstruct_path(t.prev, v).path>>)]
    ELSE IF ~Has(S.graphs[g].nodes, flat[i]) THEN Raise(S, "KeyError")
    ELSE LET t1 == relax_parents(t, flat[i], KeySeq(get_node_by_id(S, g, flat[i]).parents), 1)
         IN IF t1.err # "none" THEN Raise(S, t1.err)
            ELSE longest_path_from(S, g, v, flat, i + 1, t1)

\* self.longest_path(u, v, topological_sort); levels is that parameter
longest_path(S, g, u, v, levels, order) ==
    IF ~Ok(S) THEN S
    ELSE LET flat == Flatten(levels, order)
         IN longest_path_from(S, g, v, flat, 1,
                              [err |-> "none",
                               dist |-> Put(dict_of(flat, Len(flat), -Inf), u, 0),
                               prev |-> dict_of(flat, Len(flat), None)])

(***************************************************************************)
(* The longest-path program: an acyclic graph made by                      *)
(* graph_from_adjacency_matrix from a matrix of at most MaxLongNodes rows  *)
(* under the DAG constraint, on which longest_path is called with a level  *)
(* sequence of the graph.                                                  *)
(***************************************************************************)
MaxLongNodes == 3

InitLongest ==
    \E n \in 0..MaxLongNodes : \E matrix \in DagMatrices(n) :
        LET S == Collect(graph_from_adjacency_matrix(EmptyStore, "g", matrix))
        IN /\ objs = S.objs
           /\ lists = S.lists
           /\ graphs = S.graphs
           /\ last = [op |-> "graph_from_adjacency_matrix", err |-> "none",
                      args |-> <<>>, ret |-> None]
           /\ calls = 0

\* the level sequences of g: the nodes split into non-empty levels, every
\* node in a later level than each of its parents
LevelSequences(S, g) ==
    LET n == Cardinality(Keys(S, g))
        ranks == {lv \in [Keys(S, g) -> 1..n] :
                     /\ \A k \in 1..n : (\E x \in Keys(S, g) : lv[x] = k) =>
                           \A j \in 1..k : \E y \in Keys(S, g) : lv[y] = j
                     /\ \A x \in Keys(S, g) :
                           \A p \in KeySet(get_node_by_id(S, g, x).parents) : lv[p] < lv[x]}
    IN {[i \in 1..Cardinality({lv[x] : x \in Keys(S, g)}) |-> {x \in Keys(S, g) : lv[x] = i}] :
           lv \in ranks}

LongestPathCall ==
    /\ calls = 0
    /\ calls' = 1
    /\ \E u \in Keys(Store, "g"), v \in Keys(Store, "g"),
          levels \in LevelSequences(Store, "g"), order \in Orders :
          Called(longest_path(Store, "g", u, v, levels, order),
                 "longest_path", <<u, v, levels>>)

NextLongest == LongestPathCall

SpecLongest == InitLongest /\ [][NextLongest]_vars

\* the largest number of edges on a directed path from x to v (v is reached
\* from x, the graph is acyclic)
RECURSIVE MostEdges(_, _, _, _)
MostEdges(S, g, x, v) ==
    IF x = v THEN 0
    ELSE 1 + SetMax({MostEdges(S, g, y, v) :
                        y \in {z \in KeySet(get_node_by_id(S, g, x).children) :
                                  v \in Descendants(S, g, {z})}})

\* C26: for u and v with a directed path from u to v, longest_path(u, v,
\* levels) returns (d, path), d the largest number of edges on a directed
\* path from u to v and path such a path from u to v along child edges
C26_LongestPathIsLongest ==
    [][(last'.op = "longest_path" /\ last'.args[2] \in Descendants(Store, "g", {last'.args[1]})) =>
           /\ last'.err = "none"
           /\ last'.ret # None
           /\ LET d == last'.ret[1][1]
                  path == last'.ret[1][2]
              IN /\ d = MostEdges(Store, "g", last'.args[1], last'.args[2])
                 /\ Len(path) = d + 1
                 /\ path[1] = last'.args[1]
                 /\ path[Len(path)] = last'.args[2]
                 /\ \A i \in 1..(Len(path) - 1) :
                       Has(get_node_by_id(Store, "g", path[i]).children, path[i + 1])]_vars

(***************************************************************************)
(* OpenDigraph.connected_components.  nodes and self_nodes are the LIST    *)
(* get_nodes() and are indexed by node id; t holds visited and dic.  A     *)
(* graph of the list returned is the value [inputs, outputs, nodes], nodes *)
(* being the dict from id to Node.                                         *)
(***************************************************************************)
RECURSIVE dfs_component(_, _, _, _)
RECURSIVE dfs_component_each(_, _, _, _, _)
\* dfs_util(node_id) while the counter is cpt
dfs_component(nodes, node_id, cpt, t) ==
    IF t.err # "none" \/ node_id \in t.visited THEN t
    ELSE LET t1 == [t EXCEPT !.visited = @ \cup {node_id}, !.dic = Put(@, node_id, cpt)]
         IN IF node_id < 0 \/ node_id >= Len(nodes) THEN [t1 EXCEPT !.err = "IndexError"]
            ELSE dfs_component_each(nodes, KeySeq(nodes[node_id + 1].parents), 1, cpt,
                     dfs_component_each(nodes, KeySeq(nodes[node_id + 1].children), 1, cpt, t1))

\* for child_id in ...: dfs_util(child_id), and the same for the parents
dfs_component_each(nodes, ids, i, cpt, t) ==
    IF i > Len(ids) \/ t.err # "none" THEN t
    ELSE dfs_component_each(nodes, ids, i + 1, cpt, dfs_component(nodes, ids[i], cpt, t))

\* for node in nodes: if node.get_id() not in visited: dfs_util(...); cpt += 1
RECURSIVE dfs_component_roots(_, _, _, _)
dfs_component_roots(nodes, i, cpt, t) ==
    IF i > Len(nodes) \/ t.err # "none" THEN [t EXCEPT !.cpt = cpt]
    ELSE IF nodes[i].id \in t.visited THEN dfs_component_roots(nodes, i + 1, cpt, t)
    ELSE LET t1 == dfs_component(nodes, nodes[i].id, cpt, t)
         IN IF t1.err # "none" THEN [t1 EXCEPT !.cpt = cpt]
            ELSE dfs_component_roots(nodes, i + 1, cpt + 1, t1)

\* the position of x in sorted(keys)
new_id_of(keys, x) == Cardinality({k \in keys : k < x})

\* {new_ids[i]: d[i] for i in d if i in new_ids}
remap(d, keys) ==
    LET kept == SelectSeq(d, LAMBDA p : p[1] \in keys)
    IN [j \in 1..Len(kept) |-> <<new_id_of(keys, kept[j][1]), kept[j][2]>>]

\* new_nodes as the dict {node.id: node for node in new_nodes}
RECURSIVE new_node_dict(_, _, _)
new_node_dict(self_nodes, olds, i) ==
    IF i = 0 THEN EmptyDict
    ELSE LET keys == SeqSet(olds)
             old == self_nodes[olds[i] + 1]
         IN Put(new_node_dict(self_nodes, olds, i - 1), new_id_of(keys, olds[i]),
                Node(new_id_of(keys, olds[i]), old.label,
                     remap(old.parents, keys), remap(old.children, keys)))

\* one round of the loop over components: the graph of that component, or
\* the error of the comprehension that builds nodes
component_graph(S, g, self_nodes, dic, component) ==
    LET ids == get_node_ids(S, g)
        bad == {i \in 1..Len(ids) :
                   \/ ~Has(dic, ids[i])
                   \/ Get(dic, ids[i]) = component /\ (ids[i] < 0 \/ ids[i] >= Len(self_nodes))}
        first_bad == CHOOSE i \in bad : \A j \in bad : i <= j
        olds == SelectSeq(ids, LAMBDA i : Get(dic, i) = component)
        keys == SeqSet(olds)
        renumber(s) == LET kept == SelectSeq(s, LAMBDA i : i \in keys)
                       IN [j \in 1..Len(kept) |-> new_id_of(keys, kept[j])]
    IN IF bad # {}
       THEN [err |-> IF ~Has(dic, ids[first_bad]) THEN "KeyError" ELSE "IndexError"]
       ELSE [err |-> "none",
             graph |-> [inputs |-> renumber(get_input_ids(S, g)),
                        outputs |-> renumber(get_output_ids(S, g)),
                        nodes |-> new_node_dict(self_nodes, olds, Len(olds))]]

RECURSIVE component_graphs(_, _, _, _, _, _)
component_graphs(S, g, self_nodes, t, component, res) ==
    IF component = t.cpt THEN [S EXCEPT !.ret = Some(<<t.cpt, t.dic, res>>)]
    ELSE LET c == component_graph(S, g, self_nodes, t.dic, component)
         IN IF c.err # "none" THEN Raise(S, c.err)
            ELSE component_graphs(S, g, self_nodes, t, component + 1, Append(res, c.graph))

\* self.connected_components()
connected_components(S, g) ==
    IF ~Ok(S) THEN S
    ELSE LET t == dfs_component_roots(get_nodes(S, g), 1, 0,
                                      [err |-> "none", visited |-> {}, dic |-> EmptyDict,
                                       cpt |-> 0])
         IN IF t.err # "none" THEN Raise(S, t.err)
            ELSE component_graphs(S, g, get_nodes(S, g), t, 0, <<>>)

(***************************************************************************)
(* The components program: skip nodes are added first, then at most        *)
(* MaxCompNodes labelled nodes and at most MaxCompEdges edges among them,  *)
(* some of them made inputs and outputs; the first skip nodes are removed, *)
(* so that the ids start at skip; connected_components is called.          *)
(***************************************************************************)
MaxCompNodes == 3
MaxCompEdges == 2
MaxCompSkip == 1
CompLabels == {"a", "b"}

InitComponents ==
    \E skip \in 0..MaxCompSkip, n \in 0..MaxCompNodes :
        \E labels \in [1..n -> CompLabels], port \in 0..n :
            \E E \in {F \in SUBSET (1..Len(Wires(n))) : Cardinality(F) <= MaxCompEdges} :
                LET wires == [i \in 1..Cardinality(E) |->
                                 LET w == Wires(n)[CHOOSE k \in E :
                                                      Cardinality({j \in E : j < k}) = i - 1]
                                 IN <<w[1] + skip, w[2] + skip>>]
                    S1 == add_wires(add_gates(add_nodes(empty(EmptyStore, "g"), "g", skip),
                                              "g", labels), "g", wires)
                    S2 == IF port = 0 THEN S1
                          ELSE add_output_id(add_input_id(S1, "g", skip + port - 1),
                                             "g", skip + n - port)
                    S == Collect(remove_ids(S2, "g", skip))
                IN /\ Ok(S)
                   /\ objs = S.objs
                   /\ lists = S.lists
                   /\ graphs = S.graphs
                   /\ last = [op |-> "empty", err |-> "none", args |-> <<>>, ret |-> None]
                   /\ calls = 0

ConnectedComponents ==
    /\ calls = 0
    /\ calls' = 1
    /\ Called(connected_components(Store, "g"), "connected_components", <<>>)

NextComponents == ConnectedComponents

SpecComponents == InitComponents /\ [][NextComponents]_vars

\* every id named in a parents or children map is a key, and the two maps
\* of the two endpoints agree
ConsistentAdjacency(S, g) ==
    \A x \in Keys(S, g) :
        /\ KeySet(get_node_by_id(S, g, x).children) \subseteq Keys(S, g)
        /\ KeySet(get_node_by_id(S, g, x).parents) \subseteq Keys(S, g)
        /\ \A y \in KeySet(get_node_by_id(S, g, x).children) :
              /\ Has(get_node_by_id(S, g, y).parents, x)
              /\ Get(get_node_by_id(S, g, y).parents, x) = Get(get_node_by_id(S, g, x).children, y)
        /\ \A y \in KeySet(get_node_by_id(S, g, x).parents) :
              Has(get_node_by_id(S, g, y).children, x)

\* C27: on a graph with consistent adjacency connected_components() returns
\* (k, comp, graphs): comp gives every node id an index below k, the same
\* index to two nodes exactly when a path ignoring direction joins them;
\* graphs has k entries, the i-th holding the nodes of index i renumbered
\* from 0 in ascending order with their labels
C27_ComponentsPartition ==
    (last.op = "connected_components" /\ ConsistentAdjacency(Store, "g")) =>
        /\ last.err = "none"
        /\ LET k == last.ret[1][1]
               comp == last.ret[1][2]
               res == last.ret[1][3]
           IN /\ KeySet(comp) = Keys(Store, "g")
              /\ \A x \in Keys(Store, "g") : Get(comp, x) \in 0..(k - 1)
              /\ \A x, y \in Keys(Store, "g") :
                    (Get(comp, x) = Get(comp, y)) <=> Joined(Store, "g", x, y)
              /\ Len(res) = k
              /\ \A i \in 1..k :
                    LET members == {x \in Keys(Store, "g") : Get(comp, x) = i - 1}
                    IN /\ KeySet(res[i].nodes) = 0..(Cardinality(members) - 1)
                       /\ \A x \in members :
                             Get(res[i].nodes, new_id_of(members, x)).label
                                = get_node_by_id(Store, "g", x).label

(***************************************************************************)
(* The NOT program: circuits over the constants and the label "~" of       *)
(* allowed_primitives, on which rule_not or evaluate is called once.       *)
(***************************************************************************)
NotLabels == {"0", "1", "~"}

InitNot == Circuits(NotLabels)

RuleNot ==
    /\ calls = 0
    /\ calls' = 1
    /\ Called(rule_not(Store, "g"), "rule_not", <<>>)

NextNot == RuleNot \/ Evaluate

SpecNot == InitNot /\ [][NextNot]_vars

\* a "~" node whose single parent is a constant
ConstantNot(S, g, node_id) ==
    LET node == get_node_by_id(S, g, node_id)
    IN /\ node.label = "~"
       /\ Len(node.parents) = 1
       /\ node.parents[1][2] = 1
       /\ get_node_by_id(S, g, node.parents[1][1]).label \in {"0", "1"}

\* C28: rule_not, and evaluate on such a node that is not an output of the
\* circuit, relabels a "~" node whose single parent is the constant "0" to
\* "1", one whose parent is "1" to "0", and removes the edge from that
\* parent in the parents map of the node and in the children map of the
\* parent
C28_NotRuleComplements ==
    [][last'.op \in {"rule_not", "evaluate"} =>
          \A node_id \in Keys(Store, "g") :
              (/\ ConstantNot(Store, "g", node_id)
               /\ last'.op = "evaluate" => get_node_by_id(Store, "g", node_id).children # <<>>) =>
                  LET pred == get_node_by_id(Store, "g", node_id).parents[1][1]
                  IN /\ last'.err = "none"
                     /\ Has(graphs'["g"].nodes, node_id)
                     /\ objs'[Get(graphs'["g"].nodes, node_id)].label
                           = (IF get_node_by_id(Store, "g", pred).label = "0" THEN "1" ELSE "0")
                     /\ ~Has(objs'[Get(graphs'["g"].nodes, node_id)].parents, pred)
                     /\ Has(graphs'["g"].nodes, pred)
                     /\ ~Has(objs'[Get(graphs'["g"].nodes, pred)].children, node_id)]_vars

(***************************************************************************)
(* OpenDigraph.common_ancestors_distances and the query program: an        *)
(* acyclic graph made from a matrix, then calls of dijkstra (with each     *)
(* direction), shortest_path and common_ancestors_distances.               *)
(***************************************************************************)
\* {ancestor: (dist1[ancestor], dist2[ancestor]) for ancestor in common_ancestors}
distances_of(S, dist1, dist2, common_ancestors, order) ==
    LET ancestors == Iter(common_ancestors, order)
        bad == {i \in 1..Len(ancestors) : ~Has(dist1, ancestors[i]) \/ ~Has(dist2, ancestors[i])}
    IN IF bad # {} THEN Raise(S, "KeyError")
       ELSE [S EXCEPT !.ret = Some([i \in 1..Len(ancestors) |->
                                       <<ancestors[i], <<Get(dist1, ancestors[i]),
                                                         Get(dist2, ancestors[i])>>>>])]

\* self.common_ancestors_distances(node1_id, node2_id)
common_ancestors_distances(S, g, node1_id, node2_id, order) ==
    LET D1 == dijkstra(S, g, node1_id, None, None)
        D2 == dijkstra(D1, g, node2_id, None, None)
    IN IF ~Ok(D2) THEN D2
       ELSE distances_of(D2, D1.ret[1].dist, D2.ret[1].dist,
                         KeySet(D1.ret[1].prev) \cap KeySet(D2.ret[1].prev), order)

DijkstraDirected ==
    /\ calls < MaxPathCalls
    /\ calls' = calls + 1
    /\ \E src \in Keys(Store, "g"), direction \in {None, Some(-1), Some(1)} :
          Called(dijkstra(Store, "g", src, direction, None), "dijkstra", <<src, direction>>)

CommonAncestorsDistances ==
    /\ calls < MaxPathCalls
    /\ calls' = calls + 1
    /\ \E node1_id \in Keys(Store, "g"), node2_id \in Keys(Store, "g"), order \in Orders :
          Called(common_ancestors_distances(Store, "g", node1_id, node2_id, order),
                 "common_ancestors_distances", <<node1_id, node2_id>>)

NextQueries ==
    \/ DijkstraDirected
    \/ Dijkstra
    \/ ShortestPath
    \/ CommonAncestorsDistances

SpecQueries == InitLongest /\ [][NextQueries]_vars

\* C29: a call of dijkstra, shortest_path or common_ancestors_distances
\* leaves the node map, every node's parents and children maps, the inputs
\* and the outputs as they were before the call
C29_QueriesAreReadOnly ==
    [][last'.op \in {"dijkstra", "shortest_path", "common_ancestors_distances"} =>
           (objs' = objs /\ lists' = lists /\ graphs' = graphs)]_vars

(***************************************************************************)
(* BoolCirc() without argument.  The default value g=OpenDigraph() of the  *)
(* constructor is one graph object, made when the class is defined and     *)
(* named DefaultGraph here.  A circuit is an OpenDigraph of its own with   *)
(* the further field g, the name of the graph object self.g refers to.     *)
(***************************************************************************)
DefaultGraph == "OpenDigraph()"

\* c = BoolCirc(): a failed constructor leaves no object behind
BoolCirc_default(S, c) ==
    IF ~Ok(S) THEN S
    ELSE LET S1 == empty(S, c)
             S2 == [S1 EXCEPT !.graphs[c] = [inputs |-> S1.graphs[c].inputs,
                                             outputs |-> S1.graphs[c].outputs,
                                             nodes |-> S1.graphs[c].nodes,
                                             g |-> DefaultGraph]]
             S3 == BoolCirc(S2, DefaultGraph)
         IN IF Ok(S3) THEN S3 ELSE Forget(S3, c)

\* bin(number)[2:] as the sequence of its characters, number >= 0
RECURSIVE bin(_)
bin(number) ==
    IF number < 2 THEN <<ToString(number)>>
    ELSE bin(number \div 2) \o <<ToString(number % 2)>>

\* s.zfill(width)
RECURSIVE zfill(_, _)
zfill(s, width) == IF Len(s) >= width THEN s ELSE zfill(<<"0">> \o s, width)

\* int(c) for the character c of a binary string
int(c) == IF c = "0" THEN 0 ELSE 1

\* the two loops of int_to_register_circuit on the graph g of the circuit
RECURSIVE register_nodes(_, _, _, _)
register_nodes(S, g, padded_binary_str, i) ==
    IF i = 0 THEN S
    ELSE add_node(register_nodes(S, g, padded_binary_str, i - 1), g,
                  padded_binary_str[i], <<>>, <<>>)

RECURSIVE register_edges(_, _, _, _)
register_edges(S, g, padded_binary_str, i) ==
    IF i <= 0 THEN S
    ELSE add_edge(register_edges(S, g, padded_binary_str, i - 1), g,
                  int(padded_binary_str[i]), int(padded_binary_str[i + 1]))

\* self.int_to_register_circuit(number, register_size), g the name of self.g
int_to_register_circuit(S, g, number, register_size) ==
    LET padded_binary_str == zfill(bin(number), register_size)
        r == register_edges(register_nodes(S, g, padded_binary_str, Len(padded_binary_str)),
                            g, padded_binary_str, register_size - 1)
    IN IF Ok(r) THEN [r EXCEPT !.ret = None] ELSE r

(***************************************************************************)
(* The program with several circuits: at most MaxCircuits calls of         *)
(* BoolCirc(), and calls of add_node, add_edge, int_to_register_circuit    *)
(* and rule_copy on the graph of a circuit, which never grows beyond       *)
(* MaxSharedNodes nodes.  last.args starts with the circuit of the call.   *)
(***************************************************************************)
MaxCircuits == 3
MaxSharedNodes == 2
MaxSharedCalls == 4
MaxNumber == 2
MaxRegister == 2
CircuitNames == {"c1", "c2", "c3"}

\* the circuits made so far
CircuitsMade(G) == {c \in DOMAIN G : "g" \in DOMAIN G[c]}

InitShared ==
    LET S == empty(EmptyStore, DefaultGraph)
    IN /\ objs = S.objs
       /\ lists = S.lists
       /\ graphs = S.graphs
       /\ last = [op |-> "OpenDigraph", err |-> "none", args |-> <<>>, ret |-> None]
       /\ calls = 0

\* a call through circuit c that leaves the store S behind
Shared(S, op, args) ==
    /\ calls < MaxSharedCalls
    /\ calls' = calls + 1
    /\ \A h \in DOMAIN S.graphs : Len(S.graphs[h].nodes) <= MaxSharedNodes
    /\ Called(S, op, args)

NewBoolCirc ==
    /\ Cardinality(CircuitsMade(graphs)) < MaxCircuits
    /\ LET c == IF "c1" \notin DOMAIN graphs THEN "c1"
                ELSE IF "c2" \notin DOMAIN graphs THEN "c2" ELSE "c3"
       IN Shared(BoolCirc_default(Store, c), "BoolCirc", <<c>>)

AddGate ==
    \E c \in CircuitsMade(graphs), label \in {"0", "1"} :
        Shared(add_node(Store, graphs[c].g, label, <<>>, <<>>), "add_node", <<c>>)

AddWire ==
    \E c \in CircuitsMade(graphs), src \in 0..(MaxSharedNodes - 1), tgt \in 0..(MaxSharedNodes - 1) :
        Shared(add_edge(Store, graphs[c].g, src, tgt), "add_edge", <<c>>)

IntToRegisterCircuit ==
    \E c \in CircuitsMade(graphs), number \in 0..MaxNumber, register_size \in 0..MaxRegister :
        Shared(int_to_register_circuit(Store, graphs[c].g, number, register_size),
               "int_to_register_circuit", <<c>>)

RuleCopy ==
    \E c \in CircuitsMade(graphs) :
        Shared(rule_copy(Store, graphs[c].g), "rule_copy", <<c>>)

NextShared ==
    \/ NewBoolCirc
    \/ AddGate
    \/ AddWire
    \/ IntToRegisterCircuit
    \/ RuleCopy

SpecShared == InitShared /\ [][NextShared]_vars

\* C30: a call made through one circuit leaves the graph of every other
\* circuit without nodes, and BoolCirc() returns a circuit whose graph has
\* no nodes
C30_CircuitsOwnTheirGraphs ==
    [][/\ last'.op \in {"add_node", "add_edge", "int_to_register_circuit", "rule_copy"} =>
             \A d \in CircuitsMade(graphs) \ {last'.args[1]} :
                 graphs'[graphs'[d].g].nodes = <<>>
       /\ last'.op = "BoolCirc" =>
             /\ last'.err = "none"
             /\ graphs'[graphs'[last'.args[1]].g].nodes = <<>>]_vars
====
